---------------------------- MODULE Spec2Model ----------------------------
(***************************************************************************)
(* Convergence control of SnowGram's visual-quality loops.                 *)
(*                                                                         *)
(* UnifiedConvergenceLoop (backend/tests/unified_convergence_loop.py):     *)
(*   run -> run_single_iteration -> diagnose_root_cause, with the          *)
(*   ConvergenceState, the guardrails.md and progress.md files.            *)
(* ConvergenceLoop (backend/tests/visual/convergence_loop.py): run.        *)
(*                                                                         *)
(* Scores are whole points 0..100; an overall score is kept in hundredths  *)
(* of a point (score * weight-in-percent), so that the weighted sum is     *)
(* exact.  Strings the code builds with f-strings are tuples of their      *)
(* parts.  The append-only activity.log is written but never read by the   *)
(* loops and is left out.                                                  *)
(***************************************************************************)
EXTENDS Integers, Sequences, FiniteSets, TLC

VARIABLES
    pc,                 \* position of UnifiedConvergenceLoop.run
    loops,              \* completed passes of run's for loop
    returned,           \* return value of run: "none", "True", "False"
    state,              \* self.state : ConvergenceState
    guardrails_file,    \* .ralph/guardrails.md, a sequence of lines
    progress_file,      \* .ralph/progress.md, the checklist last written
    mermaid_template,   \* self.mermaid_template, by the call that produced it
    iter_out,           \* what the last run_single_iteration computed
    changes,            \* how often the collaborators' outcome has changed
    cl,                 \* the ConvergenceLoop object and its run position
    dc,                 \* a DefectClassifier, its input and its DiagnosisResult
    ve,                 \* a VisualEvaluator, its inputs and its EvalResult
    rt,                 \* the test harness of agent/run_tests.py
    ff,                 \* a FrontendFixer and the files it edits
    bf,                 \* a BackendFixer and the template in the database
    rl                  \* a RalphLoop (visual/ralph_loop.py)

vars == <<pc, loops, returned, state, guardrails_file, progress_file,
          mermaid_template, iter_out, changes, cl, dc, ve, rt, ff, bf, rl>>

\* the components the two convergence loops do not touch
ovars == <<dc, ve, rt, ff, bf, rl>>

uvars == <<pc, loops, returned, state, guardrails_file, progress_file,
           mermaid_template, iter_out, changes>>

-----------------------------------------------------------------------------
(* Program constants *)

MAX_ITERATIONS == 10

TARGET_SCORE == 95

GUTTER_THRESHOLD == 3

\* EvalPass: the six passes in the order evaluate() inserts them
PassOrder == <<"structure", "components", "connections", "styling", "layout", "badges">>

PassNames == {PassOrder[i] : i \in 1..Len(PassOrder)}

\* EvalPass weights, in percent
Weight(p) ==
    CASE p = "structure"   -> 15
      [] p = "components"  -> 25
      [] p = "connections" -> 20
      [] p = "styling"     -> 15
      [] p = "layout"      -> 15
      [] p = "badges"      -> 10

PASS_THRESHOLDS ==
    [p \in PassNames |->
        CASE p = "components"  -> 90
          [] p = "connections" -> 85
          [] p = "layout"      -> 70
          [] p = "badges"      -> 90
          [] p = "styling"     -> 80
          [] p = "structure"   -> 80]

\* self.PASS_THRESHOLDS.get(pass_name, 80)
Threshold(p) == IF p \in DOMAIN PASS_THRESHOLDS THEN PASS_THRESHOLDS[p] ELSE 80

ROOT_CAUSE_MAP ==
    [p \in PassNames |->
        CASE p = "components"  -> "semantic_view"
          [] p = "connections" -> "agent_spec"
          [] p = "layout"      -> "frontend_code"
          [] p = "badges"      -> "mermaid_template"
          [] p = "styling"     -> "mermaid_template"
          [] p = "structure"   -> "agent_spec"]

SKILL_MAP ==
    [r \in {"agent_spec", "semantic_view", "frontend_code", "mermaid_template", "unknown"} |->
        CASE r = "agent_spec"       -> "cortex-agent"
          [] r = "semantic_view"    -> "semantic-view"
          [] r = "frontend_code"    -> "lane-layout-debugger"
          [] r = "mermaid_template" -> "direct"
          [] r = "unknown"          -> "snowgram-debugger"]

-----------------------------------------------------------------------------
(* Inputs: what the collaborators (agent, frontend, evaluator) can return *)

\* how often the outcome of render + evaluate may differ from the outcome
\* of the iteration before (the diagram changes only when a fix was applied)
MaxChanges == 1

NoPasses == [p \in {} |-> [score |-> 0, defects |-> << >>]]

PassResult(s, d) == [score |-> s, defects |-> d]

UniformPasses(s) == [p \in PassNames |-> PassResult(s, << >>)]

OneLow(p, s, d) == [UniformPasses(100) EXCEPT ![p] = PassResult(s, d)]

TwoLow(p, s, q, t) ==
    [UniformPasses(100) EXCEPT ![p] = PassResult(s, <<"d1">>),
                               ![q] = PassResult(t, <<"d2", "d1">>)]

\* pass_results of the evaluations the model feeds to the loops: all passes
\* perfect; all passes above their thresholds but short of the target;
\* each pass failing alone, with a defect; a failing pass without defects;
\* a failing pass with the target just met (95.0); two failing passes
EvalInputs ==
    {UniformPasses(100), UniformPasses(92)}
    \cup {OneLow(p, 40, <<"d1">>) : p \in PassNames}
    \cup {OneLow("layout", 40, << >>), OneLow("badges", 50, <<"d1">>)}
    \cup {TwoLow("layout", 60, "badges", 40), TwoLow("connections", 40, "styling", 40)}

-----------------------------------------------------------------------------
(* VisualEvaluator.evaluate: aggregation of the pass results *)

RECURSIVE SumOver(_, _)
SumOver(f, S) ==
    IF S = {} THEN 0
    ELSE LET x == CHOOSE y \in S : TRUE IN f[x] + SumOver(f, S \ {x})

\* variant of OverallScore: the passes count alike
OverallScore_Average(pass_results) ==
    SumOver([p \in DOMAIN pass_results |-> pass_results[p].score * 100],
            DOMAIN pass_results) \div 6

\* sum(pr.weighted_score for pr in pass_results.values()), in hundredths
OverallScore(pass_results) ==
    SumOver([p \in DOMAIN pass_results |-> pass_results[p].score * Weight(p)],
            DOMAIN pass_results)

\* variant of MeetsTarget: the target itself does not count as met
MeetsTarget_Strict(overall) == overall > TARGET_SCORE * 100

\* overall_score >= target, both in hundredths
MeetsTarget(overall) == overall >= TARGET_SCORE * 100

\* the EvalResult evaluate() returns for the given pass results
Evaluate(pass_results, iteration) ==
    [pass_results  |-> pass_results,
     overall_score |-> OverallScore(pass_results),
     converged     |-> MeetsTarget(OverallScore(pass_results)),
     iteration     |-> iteration]

\* the placeholder EvalResult of run_single_iteration when render failed
PlaceholderEval(iteration) ==
    [pass_results  |-> NoPasses,
     overall_score |-> 0,
     converged     |-> FALSE,
     iteration     |-> iteration]

-----------------------------------------------------------------------------
(* guardrails.md *)

Line(kind, text) == [kind |-> kind, text |-> text]

\* the three lines _add_guardrail writes after a blank line
SignBlock(trigger, instruction, iteration) ==
    << Line("blank", << >>),
       Line("sign", trigger),
       Line("instruction", instruction),
       Line("added", <<iteration>>) >>

\* _load_guardrails: the text after "### Sign: " of every such line, in
\* file order
RECURSIVE LoadGuardrails(_)
LoadGuardrails(content) ==
    IF content = << >> THEN << >>
    ELSE IF Head(content).kind = "sign"
         THEN <<Head(content).text>> \o LoadGuardrails(Tail(content))
         ELSE LoadGuardrails(Tail(content))

\* index of the first marker line, 0 if there is none
RECURSIVE FirstMarker(_, _)
FirstMarker(content, i) ==
    IF i > Len(content) THEN 0
    ELSE IF content[i].kind = "marker" THEN i
    ELSE FirstMarker(content, i + 1)

\* number of lines before the insertion point of _add_guardrail: just after
\* the marker line when there is one, else the end of the file
InsertPos(content) ==
    IF FirstMarker(content, 1) > 0 THEN FirstMarker(content, 1) ELSE Len(content)

\* content[:insert_pos] + new_sign + content[insert_pos:]
InsertSign(content, trigger, instruction, iteration) ==
    SubSeq(content, 1, InsertPos(content))
    \o SignBlock(trigger, instruction, iteration)
    \o SubSeq(content, InsertPos(content) + 1, Len(content))

\* variant of AddGuardrail: the Sign is written to the file only
AddGuardrail_FileOnly(content, guardrails, trigger, instruction, iteration) ==
    [file       |-> InsertSign(content, trigger, instruction, iteration),
     guardrails |-> guardrails]

\* _add_guardrail: the new file content and the new state.guardrails, to
\* which the entry "trigger: instruction" is appended
AddGuardrail(content, guardrails, trigger, instruction, iteration) ==
    [file       |-> InsertSign(content, trigger, instruction, iteration),
     guardrails |-> Append(guardrails, trigger \o <<":">> \o instruction)]

-----------------------------------------------------------------------------
(* UnifiedConvergenceLoop.diagnose_root_cause *)

\* is pass p of the evaluation below its threshold
Failing(pass_results, p) ==
    p \in DOMAIN pass_results /\ pass_results[p].score < Threshold(p)

\* failing_passes before the sort: the failing passes in dict order
RECURSIVE FailingFrom(_, _)
FailingFrom(pass_results, i) ==
    IF i > Len(PassOrder) THEN << >>
    ELSE (IF Failing(pass_results, PassOrder[i]) THEN <<PassOrder[i]>> ELSE << >>)
         \o FailingFrom(pass_results, i + 1)

FailingPasses(pass_results) == FailingFrom(pass_results, 1)

\* failing_passes.sort(key=score)[0]: the first, in dict order, of the
\* failing passes with the lowest score (the sort is stable)
RECURSIVE WorstOf(_, _)
WorstOf(pass_results, failing) ==
    IF Len(failing) = 1 THEN failing[1]
    ELSE LET rest == WorstOf(pass_results, Tail(failing))
         IN IF pass_results[failing[1]].score <= pass_results[rest].score
            THEN failing[1] ELSE rest

\* f"{worst_pass}:{defects[0] if defects else 'unknown'}"
DefectKey(worst_pass, defects) ==
    <<worst_pass, IF defects # << >> THEN defects[1] ELSE "unknown">>

\* variant of NewFailureRecord: the count of a new record starts at 0
NewFailureRecord_CountZero(key, iteration) ==
    [defect_key |-> key, count |-> 0, iterations |-> <<iteration>>, last_action |-> << >>]

\* FailureRecord(defect_key=defect_key, iterations=[iteration]); count defaults to 1
NewFailureRecord(key, iteration) ==
    [defect_key |-> key, count |-> 1, iterations |-> <<iteration>>, last_action |-> << >>]

\* lines 609-613 and 625-629: count the failure under its key
RecordFailure(failure_counts, key, iteration) ==
    IF key \in DOMAIN failure_counts
    THEN [failure_counts EXCEPT ![key].count = @ + 1,
                                ![key].iterations = Append(@, iteration)]
    ELSE [k \in DOMAIN failure_counts \cup {key} |->
            IF k = key THEN NewFailureRecord(key, iteration) ELSE failure_counts[k]]

\* variant of GutterDetected: the count has to exceed the threshold
GutterDetected_OffByOne(failure_counts, key) ==
    /\ key \in DOMAIN failure_counts
    /\ failure_counts[key].count + 1 > GUTTER_THRESHOLD

\* line 609 with line 614: the key was already on record and its count,
\* once incremented, is at the threshold
GutterDetected(failure_counts, key) ==
    /\ key \in DOMAIN failure_counts
    /\ failure_counts[key].count + 1 >= GUTTER_THRESHOLD

\* self.ROOT_CAUSE_MAP.get(worst_pass, RootCause.UNKNOWN)
RootCauseOf(worst_pass) ==
    IF worst_pass \in DOMAIN ROOT_CAUSE_MAP THEN ROOT_CAUSE_MAP[worst_pass] ELSE "unknown"

\* variant of EscalatedRootCause: the root cause is kept in a gutter
EscalatedRootCause_NoForce(root_cause, gutter) == root_cause

\* lines 622-624: a gutter turns the direct-fix root cause into frontend_code
EscalatedRootCause(root_cause, gutter) ==
    IF gutter /\ root_cause = "mermaid_template" THEN "frontend_code" ELSE root_cause

\* self.SKILL_MAP.get(root_cause, SkillTarget.SNOWGRAM_DEBUGGER)
SkillOf(root_cause) ==
    IF root_cause \in DOMAIN SKILL_MAP THEN SKILL_MAP[root_cause] ELSE "snowgram-debugger"

GutterTrigger(worst_pass) == <<"Repeated", worst_pass, "failure">>

GutterInstruction(count) == <<"Direct fixes failed", count, "x. Escalate to bundled skill.">>

\* lines 595-596: no pass is below its threshold
NoFailureDiagnosis(st, content) ==
    [root_cause     |-> "unknown",
     skill_target   |-> "direct",
     defect_desc    |-> <<"No failures detected">>,
     defect_key     |-> << >>,
     gutter         |-> FALSE,
     failure_counts |-> st.failure_counts,
     guardrails     |-> st.guardrails,
     file           |-> content]

\* lines 603-639, for the worst failing pass
DiagnoseWorst(st, content, prs, worst) ==
    LET key    == DefectKey(worst, prs[worst].defects)
        gutter == GutterDetected(st.failure_counts, key)
        counts == RecordFailure(st.failure_counts, key, st.iteration)
        added  == IF gutter
                  THEN AddGuardrail(content, st.guardrails, GutterTrigger(worst),
                                    GutterInstruction(counts[key].count), st.iteration)
                  ELSE [file |-> content, guardrails |-> st.guardrails]
        root   == EscalatedRootCause(RootCauseOf(worst), gutter)
    IN [root_cause     |-> root,
        skill_target   |-> SkillOf(root),
        defect_desc    |-> <<worst, prs[worst].score, Threshold(worst)>>
                           \o (IF prs[worst].defects # << >>
                               THEN <<prs[worst].defects[1]>> ELSE << >>),
        defect_key     |-> key,
        gutter         |-> gutter,
        failure_counts |-> counts,
        guardrails     |-> added.guardrails,
        file           |-> added.file]

\* diagnose_root_cause: what it returns and what it leaves in
\* state.failure_counts, state.guardrails and guardrails.md
DiagnoseRootCause(st, content, eval_result) ==
    IF FailingPasses(eval_result.pass_results) = << >>
    THEN NoFailureDiagnosis(st, content)
    ELSE CHOOSE diag \in {DiagnoseWorst(st, content, eval_result.pass_results, worst) :
                             worst \in {WorstOf(eval_result.pass_results,
                                                FailingPasses(eval_result.pass_results))}} : TRUE

-----------------------------------------------------------------------------
(* UnifiedConvergenceLoop._update_progress and output_coco_yaml *)

\* scores.get(name, 0)
ScoreGet(scores, name) == IF name \in DOMAIN scores THEN scores[name] ELSE 0

\* the checklist _update_progress writes: a box per pass, checked when the
\* score is at its threshold, and the box of the overall score
UpdateProgress(st) ==
    [iteration |-> st.iteration,
     checked   |-> [p \in PassNames |-> ScoreGet(st.scores, p) >= Threshold(p)],
     overall   |-> MeetsTarget(ScoreGet(st.scores, "overall")),
     action    |-> st.last_action]

\* any(r.count >= GUTTER_THRESHOLD for r in failure_counts.values())
AnyGutter(failure_counts) ==
    \E k \in DOMAIN failure_counts : failure_counts[k].count >= GUTTER_THRESHOLD

\* the record output_coco_yaml dumps: overall_score is round(overall_score,
\* 1) in tenths of a point, skill is f"${skill_target.value}"
OutputCocoYaml(st, diag, eval_result) ==
    [iteration         |-> st.iteration,
     status            |-> IF eval_result.converged THEN "converged" ELSE "continue",
     overall_score     |-> (eval_result.overall_score + 5) \div 10,
     root_cause        |-> diag.root_cause,
     defect            |-> diag.defect_desc,
     gutter_detected   |-> AnyGutter(st.failure_counts),
     skill             |-> IF diag.skill_target # "direct"
                           THEN <<"$", diag.skill_target>>
                           ELSE <<"direct_fix">>,
     passed            |-> [p \in DOMAIN eval_result.pass_results |->
                               eval_result.pass_results[p].score >= Threshold(p)],
     guardrails_active |-> Len(st.guardrails)]

-----------------------------------------------------------------------------
(* UnifiedConvergenceLoop.run_single_iteration *)

\* the Mermaid source a call to the agent API returned in the given
\* iteration; via names the caller (invoke_agent or render_in_frontend)
Mermaid(iteration, via) == [iter |-> iteration, via |-> via]

\* the template _load_streaming_template read at construction
TemplateFile == Mermaid(0, "file")

NoMermaid == Mermaid(0, "none")

\* invoke_agent: a successful call replaces self.mermaid_template
InvokeAgent(template, iteration, agent_error) ==
    IF agent_error THEN template ELSE Mermaid(iteration, "agent")

\* render_in_frontend: the template is replaced once the API call has
\* returned Mermaid code (line 462), whether or not the capture succeeds
RenderTemplate(template, iteration, render) ==
    IF render = "api_fail" THEN template ELSE Mermaid(iteration, "render")

\* variant of ScoresOf: the overall score is not stored
ScoresOf_PassesOnly(eval_result) ==
    [name \in DOMAIN eval_result.pass_results |-> eval_result.pass_results[name].score]

\* lines 815-818: the scores of the evaluation, and only those
ScoresOf(eval_result) ==
    [name \in DOMAIN eval_result.pass_results \cup {"overall"} |->
        IF name = "overall" THEN eval_result.overall_score
        ELSE eval_result.pass_results[name].score]

\* lines 779-793: the evaluation of the iteration; render is the outcome of
\* render_in_frontend and pass_results what the six passes score when the
\* capture is evaluated
IterationEval(iteration, render, pass_results) ==
    IF render = "ok" THEN Evaluate(pass_results, 0) ELSE PlaceholderEval(iteration)

\* lines 814-820, after diagnose_root_cause has updated failure_counts and
\* guardrails: the scores, the verdict and the action of the iteration
UpdateState(st, eval_result, diag) ==
    [st EXCEPT !.failure_counts = diag.failure_counts,
               !.guardrails = diag.guardrails,
               !.scores = ScoresOf(eval_result),
               !.converged = MeetsTarget(eval_result.overall_score),
               !.last_action = <<diag.root_cause, diag.skill_target>>]

\* what run_single_iteration computed: its return values and the locals
\* they were computed from
IterationOutput(render, eval_result, template, diag, yaml) ==
    [render       |-> render,
     eval_result  |-> eval_result,
     mermaid_code |-> IF render = "ok" THEN template ELSE NoMermaid,
     root_cause   |-> diag.root_cause,
     skill_target |-> diag.skill_target,
     defect_key   |-> diag.defect_key,
     gutter       |-> diag.gutter,
     yaml         |-> yaml]

-----------------------------------------------------------------------------
(* ConvergenceLoop (visual/convergence_loop.py) and SkillTrigger *)

\* variant of TriggerAgent: only layout has an agent
TriggerAgent_LayoutOnly(p) ==
    IF p = "layout" THEN "lane-layout-debugger" ELSE "None"

\* TRIGGER_MATRIX: the agent to invoke for a failing pass, "None" for a
\* direct fix
TriggerAgent(p) ==
    CASE p = "layout"    -> "lane-layout-debugger"
      [] p = "structure" -> "snowgram-debugger"
      [] OTHER           -> "None"

\* TRIGGER_MATRIX priorities: the passes from priority 1 to priority 6; the
\* thresholds are those of PASS_THRESHOLDS
PriorityOrder == <<"layout", "structure", "connections", "styling", "badges", "components">>

\* apply_fixes lines 329-344: the failing passes, sorted by priority
RECURSIVE FailingByPriority(_, _)
FailingByPriority(pass_results, i) ==
    IF i > Len(PriorityOrder) THEN << >>
    ELSE (IF Failing(pass_results, PriorityOrder[i]) THEN <<PriorityOrder[i]>> ELSE << >>)
         \o FailingByPriority(pass_results, i + 1)

\* apply_fixes lines 351-359: the scan stops at the first failing pass that
\* has an agent; the passes before it are the direct fixes
RECURSIVE ScanFailing(_, _)
ScanFailing(failing, direct_fixes) ==
    IF failing = << >>
    THEN [agent_to_invoke |-> "None", direct_fixes |-> direct_fixes]
    ELSE IF TriggerAgent(Head(failing)) # "None"
         THEN [agent_to_invoke |-> TriggerAgent(Head(failing)), direct_fixes |-> direct_fixes]
         ELSE ScanFailing(Tail(failing), Append(direct_fixes, Head(failing)))

\* next_action of apply_fixes
NextAction(pass_results) ==
    LET scan == ScanFailing(FailingByPriority(pass_results, 1), << >>)
    IN IF scan.agent_to_invoke # "None" THEN "invoke_agent"
       ELSE IF scan.direct_fixes # << >> THEN "direct_fix"
       ELSE "continue"

\* SkillTrigger._create_action_for_pass: int((100 - score) / 10) + 1
ActionPriority(score) == ((100 - score) \div 10) + 1

\* SkillTrigger._create_action_for_pass: the action type of a pass
ActionType(p) ==
    IF p = "layout" THEN "skill"
    ELSE IF p \in {"badges", "styling", "connections"} THEN "code_fix"
    ELSE "docs_search"

\* insert pass p behind the passes of the sorted list whose priority is not
\* greater (list.sort is stable)
RECURSIVE InsertByPriority(_, _, _)
InsertByPriority(pass_results, sorted, p) ==
    IF sorted = << >> THEN <<p>>
    ELSE IF ActionPriority(pass_results[Head(sorted)].score)
              <= ActionPriority(pass_results[p].score)
         THEN <<Head(sorted)>> \o InsertByPriority(pass_results, Tail(sorted), p)
         ELSE <<p>> \o sorted

RECURSIVE SortActions(_, _, _)
SortActions(pass_results, failing, sorted) ==
    IF failing = << >> THEN sorted
    ELSE SortActions(pass_results, Tail(failing),
                     InsertByPriority(pass_results, sorted, Head(failing)))

\* SkillTrigger.determine_actions: the target passes of the actions, in
\* the order of self.actions
DetermineActions(pass_results) ==
    SortActions(pass_results, FailingPasses(pass_results), << >>)

\* the Mermaid source is the set of the fixes it contains; the fix of a
\* defect is the pair of the pass and the defect
FixOf(p, defects) == <<p, defects[1]>>

\* SkillTrigger._execute_code_fix: modified_code, or "None" when no fix was
\* applied; every call starts from the trigger's own mermaid_code
ExecuteCodeFix(mermaid_code, p, defects) ==
    IF defects # << >> /\ FixOf(p, defects) \notin mermaid_code
    THEN [modified |-> TRUE, code |-> mermaid_code \cup {FixOf(p, defects)}]
    ELSE [modified |-> FALSE, code |-> mermaid_code]

\* apply_fixes lines 364-367: current_mermaid after the loop over fix_results
RECURSIVE ApplyFixResults(_, _, _, _)
ApplyFixResults(pass_results, mermaid_code, actions, current) ==
    IF actions = << >> THEN current
    ELSE LET p   == Head(actions)
             fix == ExecuteCodeFix(mermaid_code, p, pass_results[p].defects)
         IN ApplyFixResults(pass_results, mermaid_code, Tail(actions),
                            IF ActionType(p) = "code_fix" /\ fix.modified
                            THEN fix.code ELSE current)

\* apply_fixes: the action information and current_mermaid afterwards
ApplyFixes(pass_results, current_mermaid) ==
    LET scan == ScanFailing(FailingByPriority(pass_results, 1), << >>)
        next == NextAction(pass_results)
    IN [next_action     |-> next,
        agent_to_invoke |-> scan.agent_to_invoke,
        direct_fixes    |-> IF next = "direct_fix" THEN scan.direct_fixes ELSE << >>,
        current_mermaid |-> IF next = "direct_fix"
                            THEN ApplyFixResults(pass_results, current_mermaid,
                                                 DetermineActions(pass_results),
                                                 current_mermaid)
                            ELSE current_mermaid]

\* all defects of an evaluation, pass by pass
RECURSIVE AllDefects(_, _)
AllDefects(pass_results, i) ==
    IF i > Len(PassOrder) THEN << >>
    ELSE pass_results[PassOrder[i]].defects \o AllDefects(pass_results, i + 1)

\* the entry run appends to self.history
HistoryEntry(iteration, eval_result) ==
    [iteration |-> iteration,
     score     |-> eval_result.overall_score,
     converged |-> eval_result.converged,
     defects   |-> AllDefects(eval_result.pass_results, 1)]

\* variant of CLIteration: the loop goes on after an agent is requested
CLIteration_NoBreak(c, render, ev, fx) ==
    IF render = "fail"
    THEN [c EXCEPT !.iteration = c.loops + 1, !.loops = c.loops + 1]
    ELSE IF ev.converged
    THEN [c EXCEPT !.iteration = c.loops + 1, !.loops = c.loops + 1,
                   !.history = Append(@, HistoryEntry(c.loops + 1, ev)),
                   !.converged = TRUE,
                   !.pc = "done", !.returned = "True"]
    ELSE [c EXCEPT !.iteration = c.loops + 1, !.loops = c.loops + 1,
                   !.history = Append(@, HistoryEntry(c.loops + 1, ev)),
                   !.agent_requested = fx.agent_to_invoke,
                   !.current_mermaid = fx.current_mermaid]

\* one pass of the for loop of ConvergenceLoop.run, lines 453-530, with the
\* evaluation ev of the rendered diagram and the result fx of apply_fixes
CLIteration(c, render, ev, fx) ==
    IF render = "fail"
    THEN [c EXCEPT !.iteration = c.loops + 1, !.loops = c.loops + 1]
    ELSE IF ev.converged
    THEN [c EXCEPT !.iteration = c.loops + 1, !.loops = c.loops + 1,
                   !.history = Append(@, HistoryEntry(c.loops + 1, ev)),
                   !.converged = TRUE,
                   !.pc = "done", !.returned = "True"]
    ELSE IF fx.next_action = "invoke_agent"
    THEN [c EXCEPT !.iteration = c.loops + 1, !.loops = c.loops + 1,
                   !.history = Append(@, HistoryEntry(c.loops + 1, ev)),
                   !.agent_requested = fx.agent_to_invoke,
                   !.pc = "done", !.returned = "False"]
    ELSE [c EXCEPT !.iteration = c.loops + 1, !.loops = c.loops + 1,
                   !.history = Append(@, HistoryEntry(c.loops + 1, ev)),
                   !.current_mermaid = fx.current_mermaid]

-----------------------------------------------------------------------------
(* DefectClassifier (visual/defect_classifier.py) *)

\* A classifier input is the pass_results of an EvalResult: per pass the
\* score, in whole points, and the findings, a list of words.  A severity
\* is kept in 1/20000: (100 - score) / 100 * weight is
\* 2 * (100 - score) * weight-in-percent of these units.

\* PASS_TO_SOURCE_MAP.get(pass_type, DefectSource.UNKNOWN)
PASS_TO_SOURCE_MAP(p) ==
    CASE p \in {"structure", "components", "badges"}   -> "backend"
      [] p \in {"layout", "connections", "styling"}    -> "frontend"
      [] OTHER                                         -> "unknown"

FRONTEND_FIX_TARGETS(defect_type) ==
    CASE defect_type = "wrong_column"    -> "frontend/src/lib/elkLayoutUtils.ts"
      [] defect_type = "bad_spacing"     -> "frontend/src/lib/layoutUtils.ts"
      [] defect_type = "wrong_handle"    -> "frontend/src/lib/elkLayout.ts"
      [] defect_type = "wrong_color"     -> "frontend/src/lib/mermaidToReactFlow.ts"
      [] defect_type = "missing_icon"    -> "frontend/src/lib/iconResolver.ts"
      [] defect_type = "layout_overflow" -> "frontend/src/lib/elkLayout.ts"

\* str.lower() on the words the findings are made of
Lower(word) ==
    CASE word = "Missing"  -> "missing"
      [] word = "Subgraph" -> "subgraph"
      [] word = "Position" -> "position"
      [] word = "Spacing"  -> "spacing"
      [] word = "Handle"   -> "handle"
      [] OTHER             -> word

\* " ".join(pass_result.findings).lower()
FindingsLower(findings) == [i \in 1..Len(findings) |-> Lower(findings[i])]

\* "word" in findings_lower
Mentions(findings_lower, word) ==
    \E i \in 1..Len(findings_lower) : findings_lower[i] = word

\* findings or "<default>": the joined findings, or the default when empty
Description(findings, default) == IF findings # << >> THEN findings ELSE <<default>>

\* variant of PassSeverity: the score itself weighs the defect
PassSeverity_OfScore(p, score) == 2 * score * Weight(p)

\* _analyze_pass_failure line 186: (100 - score) / 100 * weight
PassSeverity(p, score) == 2 * (100 - score) * Weight(p)

Defect(source, defect_type, pass_type, description, severity, fix_target, fix_hint) ==
    [source |-> source, defect_type |-> defect_type, pass_type |-> pass_type,
     description |-> description, severity |-> severity,
     fix_target |-> fix_target, fix_hint |-> fix_hint]

\* _rule_based_classification: the defects of one failing pass
RuleBasedClassification(p, findings, default_source, severity) ==
    LET lower == FindingsLower(findings) IN
    CASE p = "structure" ->
           IF Mentions(lower, "subgraph") \/ Mentions(lower, "missing")
           THEN << Defect("backend", "missing_subgraph", p, findings, severity,
                          "ARCHITECTURE_TEMPLATES",
                          "Add missing subgraph definitions to Mermaid code") >>
           ELSE << Defect("backend", "missing_subgraph", p,
                          Description(findings, "Structure mismatch"), severity,
                          "ARCHITECTURE_TEMPLATES",
                          "Review subgraph organization in template") >>
      [] p = "components" ->
           IF Mentions(lower, "missing") \/ Mentions(lower, "node")
           THEN << Defect("backend", "missing_node", p, findings, severity,
                          "ARCHITECTURE_TEMPLATES",
                          "Add missing node definitions to Mermaid code") >>
           ELSE << Defect("backend", "missing_node", p,
                          Description(findings, "Component mismatch"), severity,
                          "ARCHITECTURE_TEMPLATES",
                          "Review node definitions in template") >>
      [] p = "badges" ->
           << Defect("backend", "missing_badge", p,
                     Description(findings, "Missing badges"), severity,
                     "ARCHITECTURE_TEMPLATES", "Add missing badge nodes") >>
      [] p = "layout" ->
           IF Mentions(lower, "column") \/ Mentions(lower, "position")
           THEN << Defect("frontend", "wrong_column", p, findings, severity,
                          FRONTEND_FIX_TARGETS("wrong_column"),
                          "Adjust getFlowStageOrder() rules in elkLayoutUtils.ts") >>
           ELSE IF Mentions(lower, "spacing")
           THEN << Defect("frontend", "bad_spacing", p, findings, severity,
                          FRONTEND_FIX_TARGETS("bad_spacing"),
                          "Adjust LAYOUT_CONSTANTS in layoutUtils.ts") >>
           ELSE << Defect("frontend", "wrong_column", p,
                          Description(findings, "Layout mismatch"), severity,
                          FRONTEND_FIX_TARGETS("wrong_column"),
                          "Review ELK layout configuration") >>
      [] p = "connections" ->
           IF Mentions(lower, "handle") \/ Mentions(lower, "direction")
           THEN << Defect("frontend", "wrong_handle", p, findings, severity,
                          FRONTEND_FIX_TARGETS("wrong_handle"),
                          "Adjust assignHandles() in elkLayout.ts") >>
           ELSE << Defect("backend", "wrong_connection", p,
                          Description(findings, "Connection mismatch"),
                          severity \div 2,
                          "ARCHITECTURE_TEMPLATES",
                          "Check edge definitions in Mermaid code") >>
      [] p = "styling" ->
           << Defect("frontend", "wrong_color", p,
                     Description(findings, "Styling mismatch"), severity,
                     FRONTEND_FIX_TARGETS("wrong_color"),
                     "Adjust LAYER_COLORS or STAGE_COLORS in mermaidToReactFlow.ts") >>
      [] OTHER -> << >>

\* _analyze_pass_failure
AnalyzePassFailure(p, pass_result, use_llm) ==
    RuleBasedClassification(p, pass_result.findings, PASS_TO_SOURCE_MAP(p),
                            PassSeverity(p, pass_result.score))
    \* _llm_classification makes no call to Cortex Complete and returns []
    \o (IF use_llm /\ pass_result.score < 60 THEN << >> ELSE << >>)

\* diagnose lines 137-142: the defects of the failing passes (line 138:
\* pass_result.score < 80), in dict order
RECURSIVE DefectsFrom(_, _, _)
DefectsFrom(pass_results, use_llm, i) ==
    IF i > Len(PassOrder) THEN << >>
    ELSE (IF PassOrder[i] \in DOMAIN pass_results
             /\ pass_results[PassOrder[i]].score < 80
          THEN AnalyzePassFailure(PassOrder[i], pass_results[PassOrder[i]], use_llm)
          ELSE << >>)
         \o DefectsFrom(pass_results, use_llm, i + 1)

\* [d for d in defects if d.source == source]
RECURSIVE FromSource(_, _)
FromSource(defects, source) ==
    IF defects = << >> THEN << >>
    ELSE (IF Head(defects).source = source THEN <<Head(defects)>> ELSE << >>)
         \o FromSource(Tail(defects), source)

\* sum(d.severity for d in defects)
RECURSIVE TotalSeverity(_)
TotalSeverity(defects) ==
    IF defects = << >> THEN 0 ELSE Head(defects).severity + TotalSeverity(Tail(defects))

\* diagnose lines 152-157
PrimarySource(backend_defects, frontend_defects) ==
    IF TotalSeverity(backend_defects) > TotalSeverity(frontend_defects) THEN "backend"
    ELSE IF TotalSeverity(frontend_defects) > TotalSeverity(backend_defects) THEN "frontend"
    ELSE "backend"

\* put defect d behind the defects of the sorted list that are not less
\* severe (sorted(..., reverse=True) is stable)
RECURSIVE InsertBySeverity(_, _)
InsertBySeverity(sorted, d) ==
    IF sorted = << >> THEN <<d>>
    ELSE IF Head(sorted).severity >= d.severity
         THEN <<Head(sorted)>> \o InsertBySeverity(Tail(sorted), d)
         ELSE <<d>> \o sorted

\* variant of SortBySeverity: the defects are left in the order given
SortBySeverity_Unsorted(defects, sorted) == sorted \o defects

\* sorted(defects, key=severity, reverse=True)
RECURSIVE SortBySeverity(_, _)
SortBySeverity(defects, sorted) ==
    IF defects = << >> THEN sorted
    ELSE SortBySeverity(Tail(defects), InsertBySeverity(sorted, Head(defects)))

\* the line _generate_recommendations writes for a defect
Recommendation(defect) ==
    IF defect.source = "backend"
    THEN <<"[BACKEND]", defect.defect_type, defect.fix_hint>>
    ELSE <<"[FRONTEND] Fix", defect.fix_target, defect.fix_hint>>

\* _generate_recommendations
GenerateRecommendations(backend_defects, frontend_defects) ==
    LET all_defects == SortBySeverity(backend_defects \o frontend_defects, << >>)
        \* all_defects[:5]
        top == SubSeq(all_defects, 1, IF Len(all_defects) < 5 THEN Len(all_defects) ELSE 5)
    IN [i \in 1..Len(top) |-> Recommendation(top[i])]

\* diagnose: the DiagnosisResult
Diagnose(pass_results, use_llm) ==
    LET defects  == DefectsFrom(pass_results, use_llm, 1)
        backend  == FromSource(defects, "backend")
        frontend == FromSource(defects, "frontend")
    IN [defects           |-> defects,
        primary_source    |-> PrimarySource(backend, frontend),
        backend_defects   |-> backend,
        frontend_defects  |-> frontend,
        recommended_fixes |-> GenerateRecommendations(backend, frontend)]

\* classifier inputs: the scores of the six passes
AllAt(s) == [p \in PassNames |-> s]

\* all passes perfect; all passes failing alike; all passes failing with
\* different scores; one pass low, at each side of 60, of 80 and of its
\* own threshold
ClassifierScores ==
    {AllAt(100), AllAt(50),
     [AllAt(50) EXCEPT !["badges"] = 10, !["components"] = 70, !["layout"] = 30]}
    \cup {[AllAt(100) EXCEPT ![p] = s] : p \in PassNames, s \in {0, 59, 79, 80, 85}}

\* the findings of the passes: none; words no rule looks for; the words
\* the first rule of each pass looks for; the words of its other rules

FindingsOf(profile, p) ==
    CASE profile = "none"    -> << >>
      [] profile = "generic" -> <<"VISUAL:", "Chaos", "score">>
      [] profile = "rule" ->
           (CASE p = "structure"   -> <<"CODE:", "Found", "Subgraph">>
              [] p = "components"  -> <<"CODE:", "Missing", "components">>
              [] p = "layout"      -> <<"Position", "quality">>
              [] p = "connections" -> <<"Handle", "mismatch">>
              [] OTHER             -> <<"Missing", "classDef">>)
      [] profile = "other_rule" ->
           (CASE p = "structure"   -> <<"Missing", "lanes">>
              [] p = "components"  -> <<"node", "labels">>
              [] p = "layout"      -> <<"Spacing", "uneven">>
              [] p = "connections" -> <<"arrow", "direction">>
              [] OTHER             -> <<"badges", "scattered">>)

\* a component (classifier, evaluator, test harness, fixer, loop) that is
\* not in use
Idle == [pc |-> "idle"]

\* DefectClassifier(eval_result, mermaid_code, template_id, use_llm)
NewClassifier(pass_results, use_llm) ==
    [pc |-> "start", pass_results |-> pass_results, use_llm |-> use_llm,
     result |-> [defects |-> << >>, primary_source |-> "backend", backend_defects |-> << >>,
                 frontend_defects |-> << >>, recommended_fixes |-> << >>]]

-----------------------------------------------------------------------------
(* VisualEvaluator (visual/eval_passes.py): the six passes *)

\* The evaluator's input is what its detectors find in the images and in
\* the Mermaid source (the analysis).  The components pass adds
\* found_count / 23 * 50 to a score, so the evaluator's scores are kept in
\* ticks, 1/23 of a point; an overall score is in ticks times percent.

\* len(STREAMING_EXPECTED_COMPONENTS)
ExpectedComponents == 23

\* len(expected_subgraphs) of _eval_structure
ExpectedSubgraphs == 10

\* expected_purple_badges, expected_blue_badges of _eval_badges
ExpectedBadges == 4

\* a score of whole points, in ticks
Points(n) == n * ExpectedComponents

Min(a, b) == IF a < b THEN a ELSE b

\* variant of ClampScore: the score is returned as computed
ClampScore_None(score) == score

\* max(0, score)
ClampScore(score) == IF score < 0 THEN 0 ELSE score

\* a defect line of a pass when the condition holds
DefectIf(cond, tag) == IF cond THEN <<tag>> ELSE << >>

\* variant of MissingImagePenalty: a missing image costs nothing
MissingImagePenalty_None(p) == 0

\* the points a pass loses when there is no generated image (lines 743,
\* 822, 1048, 1177); connections and styling read the source text only
MissingImagePenalty(p) ==
    CASE p = "structure"  -> 30
      [] p = "components" -> 25
      [] p = "layout"     -> 50
      [] p = "badges"     -> 40
      [] OTHER            -> 0

\* the score of a pass that reads only the source text when there is none
\* (lines 915, 967)
NoCodeScore(p) == IF p = "connections" THEN 75 ELSE 70

EvalResultOf(score, defects) == [score |-> score, defects |-> defects]

\* _eval_structure
EvalStructure(a) ==
    LET in == a.structure
        visual == IF a.gen
                  THEN Min(40, in.empty_boxes * 10)
                       + (IF a.density \in {"below_5", "below_10"} THEN 25
                          ELSE IF a.density = "below_15" THEN 10 ELSE 0)
                       + (IF a.ref /\ in.density_diff THEN 15 ELSE 0)
                  ELSE MissingImagePenalty("structure")
        code   == IF a.code THEN Min(20, in.missing_subgraphs * 2) ELSE 0
    IN EvalResultOf(
          ClampScore(Points(100 - visual - code)),
          DefectIf(a.gen /\ in.empty_boxes > 0, "VISUAL: empty boxes")
          \o DefectIf(a.gen /\ a.density \in {"below_5", "below_10"}, "VISUAL: Very low content density")
          \o DefectIf(a.gen /\ a.density = "below_15", "VISUAL: Low content density")
          \o DefectIf(a.gen /\ a.ref /\ in.density_diff, "VISUAL: Content density differs")
          \o DefectIf(~a.gen, "VISUAL: No generated image to analyze")
          \o DefectIf(a.code /\ in.missing_subgraphs > 0, "CODE: Missing subgraph"))

\* _eval_components
EvalComponents(a) ==
    LET in == a.components
        visual == IF a.gen
                  THEN (IF a.ref /\ in.labels_vs_ref = "very_few" THEN 20
                        ELSE IF a.ref /\ in.labels_vs_ref = "fewer" THEN 10 ELSE 0)
                       + (IF in.too_few_labels THEN 20 ELSE 0)
                  ELSE MissingImagePenalty("components")
        seen   == Points(100 - visual)
        \* score = min(score, 50 + coverage * 50) when components are missing
        capped == IF a.code /\ in.found_count < ExpectedComponents
                  THEN Min(seen, Points(50) + in.found_count * 50)
                  ELSE seen
    IN EvalResultOf(
          ClampScore(Min(Points(100), capped)),
          DefectIf(a.gen /\ a.ref /\ in.labels_vs_ref = "very_few", "VISUAL: Very few labels")
          \o DefectIf(a.gen /\ a.ref /\ in.labels_vs_ref = "fewer", "VISUAL: Fewer labels")
          \o DefectIf(a.gen /\ in.too_few_labels, "VISUAL: Too few visible labels")
          \o DefectIf(~a.gen, "VISUAL: No generated image for component analysis")
          \o DefectIf(a.code /\ in.found_count < ExpectedComponents, "CODE: Missing components"))

\* _eval_connections
EvalConnections(a) ==
    LET in == a.connections
        points == IF a.code
                  THEN 100 - (IF in.enough THEN 0 ELSE 20) - 5 * in.missing_labels
                  ELSE NoCodeScore("connections")
    IN EvalResultOf(
          ClampScore(Points(points)),
          DefectIf(a.code /\ ~in.enough, "Insufficient connections")
          \o [i \in 1..(IF a.code THEN in.missing_labels ELSE 0) |-> "Missing flow label"])

\* the points a class definition costs in _eval_styling
ClassDefPenalty(found) ==
    CASE found = "missing"     -> 15
      [] found = "wrong_color" -> 10
      [] OTHER                 -> 0

\* _eval_styling
EvalStyling(a) ==
    LET in == a.styling
        points == IF a.code
                  THEN 100 - ClassDefPenalty(in.lane_badge) - ClassDefPenalty(in.section_badge)
                           - (IF in.few_styles THEN 10 ELSE 0)
                  ELSE NoCodeScore("styling")
    IN EvalResultOf(
          ClampScore(Points(points)),
          DefectIf(a.code /\ in.lane_badge = "wrong_color", "Wrong color for laneBadge")
          \o DefectIf(a.code /\ in.lane_badge = "missing", "Missing classDef: laneBadge")
          \o DefectIf(a.code /\ in.section_badge = "wrong_color", "Wrong color for sectionBadge")
          \o DefectIf(a.code /\ in.section_badge = "missing", "Missing classDef: sectionBadge")
          \o DefectIf(a.code /\ in.few_styles, "Insufficient subgraph styling"))

\* _detect_layout_chaos lines 622-640: chaos_score
ChaosScore(a) ==
    (IF a.density = "below_5" THEN 30 ELSE 0)
    + (IF a.layout.unbalanced THEN 20 ELSE 0)
    + (IF a.layout.proper_flow THEN 0 ELSE 25)
    + (IF a.layout.many_empty THEN 25 ELSE 0)

\* _detect_layout_chaos line 642: is_chaotic
IsChaotic(a) == ChaosScore(a) >= 40

\* variant of ChaosPenalty: a chaotic layout costs 20 points
ChaosPenalty_Light(is_chaotic) == IF is_chaotic THEN 20 ELSE 0

\* _eval_layout line 1004: the heavy penalty for a chaotic layout
ChaosPenalty(is_chaotic) == IF is_chaotic THEN 40 ELSE 0

\* _eval_layout
EvalLayout(a) ==
    LET in == a.layout
        visual == IF a.gen
                  THEN ChaosPenalty(IsChaotic(a))
                       + (IF in.coherence_chaotic THEN 20 ELSE 0)
                       + (IF in.bands = "few" THEN 15
                          ELSE IF in.bands = "many" THEN 10 ELSE 0)
                       + (IF in.proper_flow THEN 0 ELSE 15)
                       + (IF a.ref THEN 0 ELSE 10)
                  ELSE MissingImagePenalty("layout")
        code   == IF a.code
                  THEN (IF in.direction = "TB" THEN 10 ELSE 0)
                       + (IF in.lanes_missing THEN 5 ELSE 0)
                  ELSE 0
    IN EvalResultOf(
          ClampScore(Points(100 - visual - code)),
          DefectIf(a.gen /\ IsChaotic(a), "VISUAL: CHAOTIC LAYOUT DETECTED")
          \o DefectIf(a.gen /\ in.coherence_chaotic, "VISUAL: Content not organized in horizontal lanes")
          \o DefectIf(a.gen /\ in.bands = "few", "VISUAL: Missing horizontal lane structure")
          \o DefectIf(a.gen /\ in.bands = "many", "VISUAL: Too many fragmented bands")
          \o DefectIf(a.gen /\ ~in.proper_flow, "VISUAL: Content doesn't span left-to-right properly")
          \o DefectIf(a.gen /\ ~a.ref, "VISUAL: No reference image for SSIM comparison")
          \o DefectIf(~a.gen, "VISUAL: No generated image for layout analysis")
          \o DefectIf(a.code /\ in.direction = "TB", "CODE: Flowchart direction is TB, should be LR")
          \o DefectIf(a.code /\ in.lanes_missing, "CODE: Missing lane subgraphs"))

\* _eval_badges: the points lost for badges of a colour that are not there
MissingBadgesPenalty(detected, none_penalty, each_penalty) ==
    IF detected = 0 THEN none_penalty
    ELSE IF detected < ExpectedBadges THEN (ExpectedBadges - detected) * each_penalty
    ELSE 0

\* _eval_badges: the points lost for badges outside their zone
ZonePenalty(ratio, scattered_penalty, partial_penalty) ==
    CASE ratio = "scattered" -> scattered_penalty
      [] ratio = "partial"   -> partial_penalty
      [] OTHER               -> 0

\* _eval_badges
EvalBadges(a) ==
    LET in == a.badges
        visual == IF a.gen
                  THEN ZonePenalty(in.purple_ratio, 25, 15)
                       + ZonePenalty(in.blue_ratio, 20, 10)
                       + MissingBadgesPenalty(in.purple_detected, 35, 10)
                       + MissingBadgesPenalty(in.blue_detected, 30, 8)
                       + (IF in.position_quality = "poor" THEN 20
                          ELSE IF in.position_quality = "fair" THEN 10 ELSE 0)
                  ELSE MissingImagePenalty("badges")
        code   == IF a.code /\ ~in.styling_classes THEN 5 ELSE 0
    IN EvalResultOf(
          ClampScore(Points(100 - visual - code)),
          DefectIf(a.gen /\ in.purple_ratio \in {"scattered", "partial"}, "VISUAL: purple badges in left zone")
          \o DefectIf(a.gen /\ in.blue_ratio \in {"scattered", "partial"}, "VISUAL: blue badges in center zone")
          \o DefectIf(a.gen /\ in.purple_detected < ExpectedBadges, "VISUAL: Missing purple lane badges")
          \o DefectIf(a.gen /\ in.blue_detected < ExpectedBadges, "VISUAL: Missing blue section badges")
          \o DefectIf(a.gen /\ in.position_quality # "good", "VISUAL: Badge positions")
          \o DefectIf(~a.gen, "VISUAL: No generated image for badge detection")
          \o DefectIf(a.code /\ ~in.styling_classes, "CODE: Missing badge styling classes"))

\* evaluate lines 676-681: the six passes
RunPasses(a) ==
    [p \in PassNames |->
        CASE p = "structure"   -> EvalStructure(a)
          [] p = "components"  -> EvalComponents(a)
          [] p = "connections" -> EvalConnections(a)
          [] p = "styling"     -> EvalStyling(a)
          [] p = "layout"      -> EvalLayout(a)
          [] p = "badges"      -> EvalBadges(a)]

\* VisualEvaluator.evaluate
VisualEvaluate(a, target_score, iteration) ==
    LET pass_results == RunPasses(a)
        overall      == OverallScore(pass_results)
    IN [pass_results  |-> pass_results,
        overall_score |-> overall,
        converged     |-> overall >= Points(target_score) * 100,
        iteration     |-> iteration]

\* the most empty boxes _detect_empty_boxes reports, and the most badges
\* of a colour _detect_badge_colors estimates
MaxEmptyBoxes == 5

MaxBadges == 4

DensityClasses == {"below_5", "below_10", "below_15", "ok"}

\* the analysis of a diagram that renders and reads as the reference does
CleanAnalysis ==
    [gen |-> TRUE, ref |-> TRUE, code |-> TRUE, density |-> "ok",
     structure   |-> [empty_boxes |-> 0, density_diff |-> FALSE, missing_subgraphs |-> 0],
     components  |-> [labels_vs_ref |-> "ok", too_few_labels |-> FALSE,
                      found_count |-> ExpectedComponents],
     connections |-> [enough |-> TRUE, missing_labels |-> 0],
     styling     |-> [lane_badge |-> "ok", section_badge |-> "ok", few_styles |-> FALSE],
     layout      |-> [unbalanced |-> FALSE, proper_flow |-> TRUE, many_empty |-> FALSE,
                      coherence_chaotic |-> FALSE, bands |-> "ok",
                      direction |-> "LR", lanes_missing |-> FALSE],
     badges      |-> [purple_ratio |-> "ok", blue_ratio |-> "ok",
                      purple_detected |-> ExpectedBadges, blue_detected |-> ExpectedBadges,
                      position_quality |-> "good", styling_classes |-> TRUE]]

\* the analysis of a diagram on which every check fails
WorstAnalysis ==
    [gen |-> TRUE, ref |-> TRUE, code |-> TRUE, density |-> "below_5",
     structure   |-> [empty_boxes |-> MaxEmptyBoxes, density_diff |-> TRUE,
                      missing_subgraphs |-> ExpectedSubgraphs],
     components  |-> [labels_vs_ref |-> "very_few", too_few_labels |-> TRUE,
                      found_count |-> 0],
     connections |-> [enough |-> FALSE, missing_labels |-> 3],
     styling     |-> [lane_badge |-> "missing", section_badge |-> "missing",
                      few_styles |-> TRUE],
     layout      |-> [unbalanced |-> TRUE, proper_flow |-> FALSE, many_empty |-> TRUE,
                      coherence_chaotic |-> TRUE, bands |-> "few",
                      direction |-> "TB", lanes_missing |-> TRUE],
     badges      |-> [purple_ratio |-> "scattered", blue_ratio |-> "scattered",
                      purple_detected |-> 0, blue_detected |-> 0,
                      position_quality |-> "poor", styling_classes |-> FALSE]]

\* the clean and the worst diagram with every combination of inputs present
\* or missing and every density
WholeAnalyses ==
    {[base EXCEPT !.gen = gen, !.ref = ref, !.code = code, !.density = density] :
        base \in {CleanAnalysis, WorstAnalysis}, gen \in BOOLEAN, ref \in BOOLEAN,
        code \in BOOLEAN, density \in DensityClasses}

\* the clean diagram with or without a reference image, at every density
CleanAt(refs, densities) ==
    {[CleanAnalysis EXCEPT !.ref = ref, !.density = density] :
        ref \in refs, density \in densities}

\* the clean diagram with every combination of findings in one of the
\* passes, with and without the reference image where the pass compares
\* with it and at every density where the pass reads it
VariedAnalyses ==
    {[b EXCEPT !.structure = x] :
        b \in CleanAt(BOOLEAN, DensityClasses), x \in
            [empty_boxes : 0..MaxEmptyBoxes, density_diff : BOOLEAN, missing_subgraphs : {0, 1, ExpectedSubgraphs - 1, ExpectedSubgraphs}]}
    \cup {[b EXCEPT !.components = x] :
        b \in CleanAt(BOOLEAN, {"ok"}), x \in
            [labels_vs_ref : {"very_few", "fewer", "ok"}, too_few_labels : BOOLEAN, found_count : 0..ExpectedComponents]}
    \cup {[CleanAnalysis EXCEPT !.connections = x] : x \in
            [enough : BOOLEAN, missing_labels : 0..3]}
    \cup {[CleanAnalysis EXCEPT !.styling = x] : x \in
            [lane_badge : {"ok", "wrong_color", "missing"}, section_badge : {"ok", "wrong_color", "missing"}, few_styles : BOOLEAN]}
    \cup {[b EXCEPT !.layout = x] :
        b \in CleanAt(BOOLEAN, DensityClasses), x \in
            [unbalanced : BOOLEAN, proper_flow : BOOLEAN, many_empty : BOOLEAN, coherence_chaotic : BOOLEAN, bands : {"few", "many", "ok"}, direction : {"LR", "TB", "none"}, lanes_missing : BOOLEAN]}
    \cup {[CleanAnalysis EXCEPT !.badges = x] : x \in
            [purple_ratio : {"none", "scattered", "partial", "ok"}, blue_ratio : {"none", "scattered", "partial", "ok"}, purple_detected : 0..MaxBadges, blue_detected : 0..MaxBadges, position_quality : {"poor", "fair", "good"}, styling_classes : BOOLEAN]}

\* VisualEvaluator(reference_image_path, generated_image_path, mermaid_code,
\* target_score=95.0)
NewEvaluator(analysis) ==
    [pc |-> "start", analysis |-> analysis, target_score |-> TARGET_SCORE,
     result |-> PlaceholderEval(0)]

-----------------------------------------------------------------------------
(* VisualEvaluator._detect_badge_positions *)

\* the zones of eval_passes.py lines 138-140, in percent of the image width
BADGE_LEFT_ZONE_THRESHOLD == 30

BADGE_CENTER_ZONE_START == 25

BADGE_CENTER_ZONE_END == 80

\* the most colour clusters of one colour ndimage.label finds in an image
MaxClusters == 2

\* variant of PositionQuality: no badge, nothing misplaced
PositionQuality_Vacuous(correctly_placed, total_badges) ==
    IF total_badges > 0 THEN <<correctly_placed * 100, total_badges>> ELSE <<100, 1>>

\* lines 474-477: position_quality, a fraction <<numerator, denominator>>
PositionQuality(correctly_placed, total_badges) ==
    IF total_badges > 0 THEN <<correctly_placed * 100, total_badges>> ELSE <<0, 1>>

\* _detect_badge_positions on an image of the given width whose purple and
\* blue clusters have the given pixel counts (size) and centroids (x)
DetectBadgePositions(img) ==
    LET Centroids(clusters) ==
            SelectSeq([i \in 1..Len(clusters) |->
                          IF clusters[i].size > 40 THEN clusters[i].x ELSE -1],
                      LAMBDA x : x >= 0)
        InZone(centroids, from, to) ==
            Cardinality({i \in 1..Len(centroids) :
                            /\ from * img.width < centroids[i] * 100
                            /\ centroids[i] * 100 < to * img.width})
        purple_centroids == Centroids(img.purple)
        blue_centroids   == Centroids(img.blue)
        \* x < left_zone_end; center_start < x < center_end
        purple_in_correct_zone == InZone(purple_centroids, -1, BADGE_LEFT_ZONE_THRESHOLD)
        blue_in_correct_zone   == InZone(blue_centroids, BADGE_CENTER_ZONE_START,
                                         BADGE_CENTER_ZONE_END)
        total_badges == Len(purple_centroids) + Len(blue_centroids)
    IN [purple_centroids       |-> purple_centroids,
        blue_centroids         |-> blue_centroids,
        purple_in_left_zone    |-> purple_in_correct_zone,
        purple_misplaced       |-> Len(purple_centroids) - purple_in_correct_zone,
        blue_in_center_zone    |-> blue_in_correct_zone,
        blue_misplaced         |-> Len(blue_centroids) - blue_in_correct_zone,
        position_quality_score |-> PositionQuality(
                                       purple_in_correct_zone + blue_in_correct_zone,
                                       total_badges),
        total_badges_found     |-> total_badges]

-----------------------------------------------------------------------------
(* The agent test harness, run_tests.py *)

\* CATEGORIES['core']: the names of the test cases, in the order of the
\* configuration
TestNames ==
    <<"medallion_internal", "medallion_with_s3", "medallion_bi", "iot_kafka",
      "streaming_snowpipe", "component_types", "dynamic_tables">>

\* the most test cases of a run and the most worker threads of the pool
MaxTests == 3

MaxParallel == 3

\* the test cases of a run: the first n names, each with what the agent
\* does with its query: it answers and the answer passes the validations
\* ("valid"), it answers and a validation fails ("invalid"), or the call
\* fails with a non-zero exit, a timeout or unreadable output ("raises")
TestCases(n, outcomes) ==
    [i \in 1..n |-> [name |-> TestNames[i], query |-> <<"query", TestNames[i]>>,
                     outcome |-> outcomes[i]]]

\* variant of OutputFile: every test case is given the same file
OutputFile_Shared(name) == <<"response", ".json">>

\* run_test line 388: output_dir / f"{name}.json"
OutputFile(name) == <<name, ".json">>

\* TestResult(name=name, query=query, status='ERROR')
TestResult(name, query) ==
    [name |-> name, query |-> query, status |-> "ERROR", response |-> << >>,
     validation_results |-> << >>, error_message |-> ""]

\* run_test lines 419-440: the result from the response read.
\* validate_response: the checks of a test case on a response; a response
\* to another query does not hold what the checks look for
ValidatedResult(result, response, test_case) ==
    LET validation_results == <<response.answers = test_case.query /\ response.passes>>
    IN [result EXCEPT !.response = response,
                      !.validation_results = validation_results,
                      !.status = IF \A i \in 1..Len(validation_results) :
                                       validation_results[i]
                                   THEN "PASS" ELSE "FAIL"]

\* TestReport(suite_name, timestamp, total=len(test_cases))
TestReport(total) ==
    [total |-> total, passed |-> 0, failed |-> 0, errors |-> 0, skipped |-> 0,
     results |-> << >>]

\* main lines 744-754: the result is appended and counted
Collect(report, result) ==
    [report EXCEPT !.results = Append(@, result),
                   !.passed  = IF result.status = "PASS" THEN @ + 1 ELSE @,
                   !.failed  = IF result.status = "FAIL" THEN @ + 1 ELSE @,
                   !.skipped = IF result.status = "SKIP" THEN @ + 1 ELSE @,
                   !.errors  = IF result.status \notin {"PASS", "FAIL", "SKIP"}
                               THEN @ + 1 ELSE @]

\* main with --parallel max_workers: all test cases are submitted to the
\* pool, none has started
NewHarness(test_cases, max_workers) ==
    [pc          |-> "running",
     test_cases  |-> test_cases,
     max_workers |-> max_workers,
     queue       |-> [i \in 1..Len(test_cases) |-> i],
     futures     |-> [i \in 1..Len(test_cases) |->
                        [phase  |-> "queued",
                         result |-> TestResult(test_cases[i].name, test_cases[i].query)]],
     files       |-> [f \in {} |-> << >>],
     report      |-> TestReport(Len(test_cases))]

-----------------------------------------------------------------------------
(* Initial state *)

\* ConvergenceState()
FreshState ==
    [iteration      |-> 0,
     scores         |-> [name \in {} |-> 0],
     failure_counts |-> << >>,
     guardrails     |-> << >>,
     converged      |-> FALSE,
     last_action    |-> << >>]

\* guardrails.md as a run can find it: missing, or with the marker comment
\* and a Sign a previous run added
InitialFiles ==
    { << >>,
      <<Line("text", <<"# Guardrails">>), Line("marker", << >>)>>
          \o SignBlock(GutterTrigger("layout"), GutterInstruction(3), 3) }

NoOutput ==
    [render       |-> "none",
     eval_result  |-> PlaceholderEval(0),
     mermaid_code |-> NoMermaid,
     root_cause   |-> "unknown",
     skill_target |-> "direct",
     defect_key   |-> << >>,
     gutter       |-> FALSE,
     yaml         |-> << >>]

NoProgress == [iteration |-> 0, checked |-> [p \in {} |-> FALSE],
               overall |-> FALSE, action |-> << >>]

\* ConvergenceLoop(): the object, with the position and result of run
NewConvergenceLoop ==
    [pc              |-> "idle",
     loops           |-> 0,
     iteration       |-> 0,
     history         |-> << >>,
     current_mermaid |-> {},
     converged       |-> FALSE,
     agent_requested |-> "None",
     returned        |-> "none",
     last            |-> [render |-> "none", pass_results |-> NoPasses],
     changes         |-> 0]

\* one of the two loops is run
Init ==
    /\ \/ pc = "start" /\ cl = NewConvergenceLoop
       \/ pc = "idle" /\ cl = [NewConvergenceLoop EXCEPT !.pc = "loop"]
    /\ loops = 0
    /\ returned = "none"
    /\ state = FreshState
    /\ guardrails_file \in InitialFiles
    /\ progress_file = NoProgress
    /\ mermaid_template = TemplateFile
    /\ iter_out = NoOutput
    /\ changes = 0
    /\ dc = Idle
    /\ ve = Idle
    /\ rt = Idle
    /\ ff = Idle /\ bf = Idle /\ rl = Idle

-----------------------------------------------------------------------------
(* UnifiedConvergenceLoop.run *)

\* is the outcome the same as the one the iteration before observed
SameOutcome(out, render, pass_results) ==
    /\ out.render = render
    /\ render = "ok" => out.eval_result.pass_results = pass_results

\* the outcome may change MaxChanges times in a run
OutcomeAllowed(out, n, render, pass_results) ==
    \/ out.render = "none"
    \/ SameOutcome(out, render, pass_results)
    \/ n < MaxChanges

\* variant of BudgetLeft: one pass too many
BudgetLeft_OffByOne(n) == n <= MAX_ITERATIONS

\* for _ in range(self.MAX_ITERATIONS): is there another pass to run
BudgetLeft(n) == n < MAX_ITERATIONS

\* lines 844-847: the guardrails of previous runs are loaded
Run_LoadGuardrails ==
    /\ pc = "start"
    /\ state' = [state EXCEPT !.guardrails = LoadGuardrails(guardrails_file)]
    /\ pc' = "loop"
    /\ UNCHANGED <<loops, returned, guardrails_file, progress_file,
                   mermaid_template, iter_out, changes, cl, dc, ve, rt, ff, bf, rl>>

\* lines 849-871: one pass of the for loop, a call of run_single_iteration
\* (lines 745-827) and the test of state.converged
Run_Iteration ==
    /\ pc = "loop"
    /\ BudgetLeft(loops)
    /\ \E agent_error \in BOOLEAN, render \in {"api_fail", "capture_fail", "ok"} :
       \E pass_results \in (IF render = "ok" THEN EvalInputs ELSE {NoPasses}) :
          /\ OutcomeAllowed(iter_out, changes, render, pass_results)
          /\ \E st1 \in {[state EXCEPT !.iteration = @ + 1]} :
             \E tmpl \in {RenderTemplate(InvokeAgent(mermaid_template, st1.iteration,
                                                      agent_error),
                                         st1.iteration, render)} :
             \E ev \in {IterationEval(st1.iteration, render, pass_results)} :
             \E diag \in {DiagnoseRootCause(st1, guardrails_file, ev)} :
             \E st3 \in {UpdateState(st1, ev, diag)} :
                /\ state' = st3
                /\ guardrails_file' = diag.file
                /\ progress_file' = UpdateProgress(st3)
                /\ mermaid_template' = tmpl
                /\ iter_out' = IterationOutput(render, ev, tmpl, diag,
                      OutputCocoYaml([st1 EXCEPT !.failure_counts = diag.failure_counts,
                                                 !.guardrails = diag.guardrails],
                                     diag, ev))
                /\ changes' = IF iter_out.render = "none"
                                 \/ SameOutcome(iter_out, render, pass_results)
                              THEN changes ELSE changes + 1
                /\ loops' = loops + 1
                /\ IF st3.converged
                   THEN pc' = "done" /\ returned' = "True"
                   ELSE pc' = "loop" /\ returned' = returned
    /\ UNCHANGED <<cl, dc, ve, rt, ff, bf, rl>>

\* lines 873-879: the for loop is exhausted
Run_MaxIterations ==
    /\ pc = "loop"
    /\ ~BudgetLeft(loops)
    /\ pc' = "done"
    /\ returned' = "False"
    /\ UNCHANGED <<loops, state, guardrails_file, progress_file,
                   mermaid_template, iter_out, changes, cl, dc, ve, rt, ff, bf, rl>>

-----------------------------------------------------------------------------
(* ConvergenceLoop.run *)

CLSameOutcome(c, render, pass_results) ==
    c.last.render = render /\ c.last.pass_results = pass_results

\* lines 453-530: one pass of the for loop
CL_Iteration ==
    /\ cl.pc = "loop"
    /\ BudgetLeft(cl.loops)
    /\ \E render \in {"fail", "ok"} :
       \E pass_results \in (IF render = "ok" THEN EvalInputs ELSE {NoPasses}) :
          /\ \/ cl.last.render = "none"
             \/ CLSameOutcome(cl, render, pass_results)
             \/ cl.changes < MaxChanges
          /\ \E ev \in {IF render = "ok" THEN Evaluate(pass_results, cl.loops + 1)
                         ELSE PlaceholderEval(cl.loops + 1)} :
             \* apply_fixes is called only with the evaluation of a rendered diagram
             \E fx \in {IF render = "ok" THEN ApplyFixes(pass_results, cl.current_mermaid)
                         ELSE [next_action |-> "continue", agent_to_invoke |-> "None",
                               direct_fixes |-> << >>, current_mermaid |-> {}]} :
                cl' = [CLIteration(cl, render, ev, fx) EXCEPT
                          !.last = [render |-> render, pass_results |-> pass_results],
                          !.changes = IF cl.last.render = "none"
                                         \/ CLSameOutcome(cl, render, pass_results)
                                      THEN @ ELSE @ + 1]
    /\ UNCHANGED <<uvars, ovars>>

\* lines 532-553: the for loop is exhausted; run returns converged
CL_MaxIterations ==
    /\ cl.pc = "loop"
    /\ ~BudgetLeft(cl.loops)
    /\ cl' = [cl EXCEPT !.pc = "done",
                        !.returned = IF cl.converged THEN "True" ELSE "False"]
    /\ UNCHANGED <<uvars, ovars>>

Next ==
    \/ Run_LoadGuardrails
    \/ Run_Iteration
    \/ Run_MaxIterations
    \/ CL_Iteration
    \/ CL_MaxIterations

Spec == Init /\ [][Next]_vars

\* the loop is a sequential program: it takes its next step when it has one
FairSpec == Spec /\ WF_vars(Next)

-----------------------------------------------------------------------------
(* DefectClassifier.diagnose *)

\* the loops at rest: the state in which another component is run
LoopsIdle ==
    /\ pc = "idle"
    /\ loops = 0
    /\ returned = "none"
    /\ state = FreshState
    /\ guardrails_file = << >>
    /\ progress_file = NoProgress
    /\ mermaid_template = TemplateFile
    /\ iter_out = NoOutput
    /\ changes = 0

ClassifierInit ==
    /\ LoopsIdle
    /\ cl = NewConvergenceLoop
    /\ dc \in {NewClassifier([p \in PassNames |->
                                    [score |-> scores[p], findings |-> FindingsOf(profile, p)]],
                                use_llm) :
                  scores \in ClassifierScores, profile \in {"none", "generic", "rule", "other_rule"},
                  use_llm \in BOOLEAN}
    /\ ve = Idle
    /\ rt = Idle
    /\ ff = Idle /\ bf = Idle /\ rl = Idle

\* await classifier.diagnose()
DC_Diagnose ==
    /\ dc.pc = "start"
    /\ dc' = [dc EXCEPT !.pc = "done",
                        !.result = Diagnose(dc.pass_results, dc.use_llm)]
    /\ UNCHANGED <<uvars, cl, ve, rt, ff, bf, rl>>

ClassifierSpec == ClassifierInit /\ [][DC_Diagnose]_vars

-----------------------------------------------------------------------------
(* VisualEvaluator.evaluate *)

EvaluatorInit ==
    /\ LoopsIdle
    /\ cl = NewConvergenceLoop
    /\ dc = Idle
    /\ ve \in {NewEvaluator(analysis) : analysis \in WholeAnalyses \cup VariedAnalyses}
    /\ rt = Idle
    /\ ff = Idle /\ bf = Idle /\ rl = Idle

\* await evaluator.evaluate()
VE_Evaluate ==
    /\ ve.pc = "start"
    /\ ve' = [ve EXCEPT !.pc = "done",
                        !.result = VisualEvaluate(ve.analysis, ve.target_score, 0)]
    /\ UNCHANGED <<uvars, cl, dc, rt, ff, bf, rl>>

EvaluatorSpec == EvaluatorInit /\ [][VE_Evaluate]_vars

-----------------------------------------------------------------------------
(* VisualEvaluator._detect_badge_positions on the generated image *)

\* images 100 pixels wide with up to MaxClusters clusters of each colour,
\* small and significant, at both sides of the zone borders
DetectInit ==
    /\ LoopsIdle
    /\ cl = NewConvergenceLoop
    /\ dc = Idle
    /\ \E purple_count, blue_count \in 0..MaxClusters :
          ve \in [pc     : {"detect"},
                  width  : {100},
                  purple : [1..purple_count -> [x : {10, 30, 50}, size : {40, 41}]],
                  blue   : [1..blue_count -> [x : {25, 50, 80}, size : {40, 41}]]]
    /\ rt = Idle
    /\ ff = Idle /\ bf = Idle /\ rl = Idle

\* position_result = self._detect_badge_positions(self._gen_image)
VE_DetectBadgePositions ==
    /\ ve.pc = "detect"
    /\ ve' = [pc |-> "detected", image |-> ve,
              position_result |-> DetectBadgePositions(ve)]
    /\ UNCHANGED <<uvars, cl, dc, rt, ff, bf, rl>>

DetectSpec == DetectInit /\ [][VE_DetectBadgePositions]_vars

-----------------------------------------------------------------------------
(* ConvergenceLoop.apply_fixes on the evaluation of one iteration *)

\* the most defects a pass reports
MaxDefects == 1

\* evaluations in which every pass scores far below its threshold, just
\* below it, at it, or 100, a failing pass reporting up to MaxDefects
\* defects; the diagram source holds none of the fixes or that of badges
ApplyFixesInit ==
    /\ LoopsIdle
    /\ \E scores \in [PassNames -> {40, -1, 0, 100}], current_mermaid \in {{}, {<<"badges", 1>>}} :
          cl = [NewConvergenceLoop EXCEPT
                   !.pc = "apply_fixes",
                   !.iteration = 1,
                   !.current_mermaid = current_mermaid,
                   !.last = [render |-> "ok",
                             pass_results |->
                                [p \in PassNames |->
                                    LET score == IF scores[p] \in {-1, 0}
                                                 THEN Threshold(p) + scores[p]
                                                 ELSE scores[p]
                                    IN PassResult(score,
                                                  IF score < Threshold(p)
                                                  THEN [i \in 1..MaxDefects |-> i]
                                                  ELSE << >>)]]]
    /\ dc = Idle /\ ve = Idle /\ rt = Idle
    /\ ff = Idle /\ bf = Idle /\ rl = Idle

\* action_info = await self.apply_fixes(result); trigger.actions are the
\* actions determine_actions returned at line 326
CL_ApplyFixes ==
    /\ cl.pc = "apply_fixes"
    /\ cl' = [pc          |-> "applied",
              before      |-> cl,
              actions     |-> DetermineActions(cl.last.pass_results),
              action_info |-> ApplyFixes(cl.last.pass_results, cl.current_mermaid)]
    /\ UNCHANGED <<uvars, ovars>>

ApplyFixesSpec == ApplyFixesInit /\ [][CL_ApplyFixes]_vars

-----------------------------------------------------------------------------
(* main of run_tests.py with --parallel: worker threads and the main thread *)

HarnessInit ==
    /\ LoopsIdle
    /\ cl = NewConvergenceLoop
    /\ dc = Idle
    /\ ve = Idle
    /\ rt \in {NewHarness(TestCases(n, outcomes), max_workers) :
                  n \in 1..MaxTests, outcomes \in [1..MaxTests -> {"valid", "invalid", "raises"}],
                  max_workers \in 2..MaxParallel}
    /\ ff = Idle /\ bf = Idle /\ rl = Idle

\* a free worker thread takes the next work item and enters run_test
RT_RunTest ==
    /\ rt.pc = "running"
    /\ rt.queue # << >>
    /\ Cardinality({i \in DOMAIN rt.futures :
                        rt.futures[i].phase \in {"call", "read"}}) < rt.max_workers
    /\ rt' = [rt EXCEPT !.queue = Tail(@),
                        !.futures[Head(rt.queue)].phase = "call"]
    /\ UNCHANGED <<uvars, cl, dc, ve, ff, bf, rl>>

\* call_agent_via_skill, subprocess.run: the agent script writes its answer
\* to the output file of the test case, or the call raises and run_test
\* catches it
RT_CallAgent(i) ==
    /\ rt.pc = "running"
    /\ rt.futures[i].phase = "call"
    /\ IF rt.test_cases[i].outcome = "raises"
       THEN rt' = [rt EXCEPT !.futures[i].phase = "finished",
                             !.futures[i].result =
                                 [@ EXCEPT !.status = "ERROR",
                                           !.error_message = "Agent call failed"]]
       ELSE rt' = [rt EXCEPT !.futures[i].phase = "read",
                             !.files = [f \in DOMAIN @ \cup {OutputFile(rt.test_cases[i].name)} |->
                                          IF f = OutputFile(rt.test_cases[i].name)
                                          \* what test_agent.py writes for the query
                                          THEN [answers |-> rt.test_cases[i].query,
                                                passes  |-> rt.test_cases[i].outcome = "valid"]
                                          ELSE @[f]]]
    /\ UNCHANGED <<uvars, cl, dc, ve, ff, bf, rl>>

\* call_agent_via_skill reads the output file; run_test validates the
\* response and returns
RT_ReadOutput(i) ==
    /\ rt.pc = "running"
    /\ rt.futures[i].phase = "read"
    /\ rt' = [rt EXCEPT !.futures[i].phase = "finished",
                        !.futures[i].result =
                            ValidatedResult(@, rt.files[OutputFile(rt.test_cases[i].name)],
                                            rt.test_cases[i])]
    /\ UNCHANGED <<uvars, cl, dc, ve, ff, bf, rl>>

\* main, one turn of the loop over as_completed(futures)
RT_Collect(i) ==
    /\ rt.pc = "running"
    /\ rt.futures[i].phase = "finished"
    /\ rt' = [rt EXCEPT !.futures[i].phase = "collected",
                        !.report = Collect(@, rt.futures[i].result)]
    /\ UNCHANGED <<uvars, cl, dc, ve, ff, bf, rl>>

\* main after the loop: the summary and the report are written
RT_Summary ==
    /\ rt.pc = "running"
    /\ \A i \in DOMAIN rt.futures : rt.futures[i].phase = "collected"
    /\ rt' = [rt EXCEPT !.pc = "done"]
    /\ UNCHANGED <<uvars, cl, dc, ve, ff, bf, rl>>

HarnessNext ==
    \/ RT_RunTest
    \/ \E i \in 1..MaxTests : i \in DOMAIN rt.futures /\ RT_CallAgent(i)
    \/ \E i \in 1..MaxTests : i \in DOMAIN rt.futures /\ RT_ReadOutput(i)
    \/ \E i \in 1..MaxTests : i \in DOMAIN rt.futures /\ RT_Collect(i)
    \/ RT_Summary

HarnessSpec == HarnessInit /\ [][HarnessNext]_vars

-----------------------------------------------------------------------------
(* FrontendFixer (visual/frontend_fixer.py): a sequence of apply_fixes calls *)

\* the most calls of apply_fixes on one fixer, and the most frontend
\* defects of one diagnosis
MaxCalls == 2
MaxFixes == 2

\* the frontend files the fixes of the model write to; the content of a file
\* is the set of the patches it contains, the committed content being {}
FrontendFiles == {"elkLayoutUtils", "layoutUtils"}

\* _rollback: every file of modified_files gets the content stored for it,
\* then modified_files and applied_fixes are cleared
FrontendRollback(f) ==
    [f EXCEPT !.files = [q \in FrontendFiles |->
                            IF q \in DOMAIN f.modified_files
                            THEN f.modified_files[q] ELSE f.files[q]],
              !.modified_files = << >>,
              !.applied_fixes = << >>]

\* apply_fixes lines 111-127: the loop over the defects from the i-th on.
\* _generate_fix reads the file as it is now; a validated fix is applied by
\* _apply_file_fix, which stores the original content only for a path that
\* modified_files does not hold yet, and writes the patched content
RECURSIVE ApplyFileFixes(_, _, _)
ApplyFileFixes(f, defects, i) ==
    IF i > Len(defects) THEN f
    ELSE IF ~defects[i].validated THEN ApplyFileFixes(f, defects, i + 1)
    ELSE LET path  == defects[i].file
             patch == <<f.calls, i>>
             original_content == f.files[path]
         IN ApplyFileFixes(
               [f EXCEPT !.modified_files =
                            IF path \in DOMAIN @ THEN @
                            ELSE [q \in DOMAIN @ \cup {path} |->
                                     IF q = path THEN original_content ELSE @[q]],
                         !.files[path] = original_content \cup {patch},
                         !.fixes_applied = Append(@, patch),
                         !.files_modified = @ \cup {path},
                         !.applied_fixes = Append(@, patch)],
               defects, i + 1)

\* FrontendFixer.apply_fixes with the defects of the diagnosis, whether git
\* is usable and whether npm run build succeeds.  _create_stash: git stash
\* push saves the local changes, if there are any, and takes the files back
\* to their committed content
FrontendApplyFixes(f, defects, git, build) ==
    LET started == [f EXCEPT !.calls = @ + 1, !.before = f.files,
                             !.defects = defects, !.build = build,
                             !.fixes_applied = << >>, !.files_modified = {}]
        stashed == IF git /\ \E q \in FrontendFiles : f.files[q] # {}
                   THEN [started EXCEPT !.files = [q \in FrontendFiles |-> {}],
                                        !.stash_id = "stash@{0}"]
                   ELSE started
        fixed   == ApplyFileFixes(stashed, defects, 1)
        Nothing(success, build_success) ==
            [success |-> success, fixes_applied |-> << >>,
             files_modified |-> {}, build_success |-> build_success]
    IN IF defects = << >>
       THEN [started EXCEPT !.result = Nothing(TRUE, TRUE)]
       ELSE IF fixed.files_modified = {}
       THEN [fixed EXCEPT !.result = Nothing(FALSE, TRUE)]
       ELSE IF ~build
       THEN [FrontendRollback(fixed) EXCEPT
                !.result = Nothing(FALSE, FALSE)]
       ELSE [fixed EXCEPT !.result = [success        |-> TRUE,
                                      fixes_applied  |-> fixed.fixes_applied,
                                      files_modified |-> fixed.files_modified,
                                      build_success  |-> TRUE]]

\* FrontendFixer.__init__ on a clean working tree
FrontendInit ==
    /\ LoopsIdle
    /\ cl = NewConvergenceLoop
    /\ dc = Idle /\ ve = Idle /\ rt = Idle /\ bf = Idle /\ rl = Idle
    /\ ff = [pc             |-> "ready",
             calls          |-> 0,
             files          |-> [q \in FrontendFiles |-> {}],
             modified_files |-> << >>,
             applied_fixes  |-> << >>,
             stash_id       |-> "None",
             before         |-> [q \in FrontendFiles |-> {}],
             defects        |-> << >>,
             build          |-> TRUE,
             fixes_applied  |-> << >>,
             files_modified |-> {},
             result         |-> [success |-> TRUE, fixes_applied |-> << >>,
                                 files_modified |-> {}, build_success |-> TRUE]]

\* one call of apply_fixes
FF_ApplyFixes ==
    /\ ff.pc = "ready"
    /\ ff.calls < MaxCalls
    /\ \E n \in 0..MaxFixes, git \in BOOLEAN, build \in BOOLEAN :
       \E defects \in [1..n -> [file : FrontendFiles, validated : BOOLEAN]] :
          ff' = FrontendApplyFixes(ff, defects, git, build)
    /\ UNCHANGED <<uvars, cl, dc, ve, rt, bf, rl>>

FrontendSpec == FrontendInit /\ [][FF_ApplyFixes]_vars

-----------------------------------------------------------------------------
(* BackendFixer (visual/backend_fixer.py): a sequence of apply_fixes calls *)

\* apply_fixes lines 107-121: the patches of the defects from the i-th on
\* for which _generate_fix returns a validated fix, in the order of the loop
RECURSIVE ValidatedFixes(_, _, _)
ValidatedFixes(defects, call, i) ==
    IF i > Len(defects) THEN << >>
    ELSE (IF defects[i] THEN <<(<<call, i>>)>> ELSE << >>)
         \o ValidatedFixes(defects, call, i + 1)

\* BackendFixer.apply_fixes with the defects of the diagnosis (for each,
\* whether its fix is validated) and the outcome of _update_template_in_db:
\* "ok", or an exception before or after the UPDATE statement was executed.
\* The template code is the set of the patches it contains.
BackendApplyFixes(b, defects, update) ==
    LET started == [b EXCEPT !.calls = @ + 1, !.update = update,
                             !.before = [current_code  |-> b.current_code,
                                         applied_fixes |-> b.applied_fixes]]
        fixes_applied == ValidatedFixes(defects, b.calls + 1, 1)
        patched_code  == b.current_code \cup {fixes_applied[i] : i \in DOMAIN fixes_applied}
        Result(success, applied, patched) ==
            [success |-> success, fixes_applied |-> applied,
             original_code |-> b.original_code, patched_code |-> patched]
    IN IF defects = << >>
       THEN [started EXCEPT !.result = Result(TRUE, << >>, b.current_code)]
       ELSE IF fixes_applied = << >>
       THEN [started EXCEPT !.result = Result(FALSE, << >>, b.current_code)]
       ELSE IF update = "ok"
       THEN [started EXCEPT !.applied_fixes = @ \o fixes_applied,
                            !.db = patched_code,
                            !.current_code = patched_code,
                            !.result = Result(TRUE, fixes_applied, patched_code)]
       ELSE [started EXCEPT !.applied_fixes = @ \o fixes_applied,
                            !.db = IF update = "after_update" THEN patched_code ELSE @,
                            !.result = Result(FALSE, << >>, b.current_code)]

\* BackendFixer.__init__ with the code of the template in the database
BackendInit ==
    /\ LoopsIdle
    /\ cl = NewConvergenceLoop
    /\ dc = Idle /\ ve = Idle /\ rt = Idle /\ ff = Idle /\ rl = Idle
    /\ bf = [pc            |-> "ready",
             calls         |-> 0,
             current_code  |-> {},
             original_code |-> {},
             applied_fixes |-> << >>,
             db            |-> {},
             update        |-> "ok",
             before        |-> [current_code |-> {}, applied_fixes |-> << >>],
             result        |-> [success |-> TRUE, fixes_applied |-> << >>,
                                original_code |-> {}, patched_code |-> {}]]

\* one call of apply_fixes
BF_ApplyFixes ==
    /\ bf.pc = "ready"
    /\ bf.calls < MaxCalls
    /\ \E n \in 0..MaxFixes, update \in {"ok", "before_update", "after_update"} :
       \E defects \in [1..n -> BOOLEAN] :
          bf' = BackendApplyFixes(bf, defects, update)
    /\ UNCHANGED <<uvars, cl, dc, ve, rt, ff, rl>>

BackendSpec == BackendInit /\ [][BF_ApplyFixes]_vars

-----------------------------------------------------------------------------
(* RalphLoop (visual/ralph_loop.py): run *)

\* RalphLoop.QUALITY_TARGET and RalphLoop.MAX_ITERATIONS, the defaults of
\* quality_target and max_iterations
QUALITY_TARGET == 95
RALPH_MAX_ITERATIONS == 5

\* run_iteration: the IterationResult it returns is kept in results, in the
\* order of the calls.  When step_2_capture returns no path the result is
\* built with overall_score 0 and returned at once; otherwise the analysis
\* sets current_score and the result is appended to self.iterations
RunIteration(r, captured, overall_score) ==
    IF ~captured
    THEN [r EXCEPT !.results = Append(@, [iteration |-> Len(@) + 1, screenshot_path |-> "",
                                          overall_score |-> 0])]
    ELSE [r EXCEPT !.current_score = overall_score,
                   !.iterations = Append(@, [iteration |-> Len(r.results) + 1,
                                             screenshot_path |-> "png",
                                             overall_score |-> overall_score]),
                   !.results = Append(@, [iteration |-> Len(@) + 1,
                                          screenshot_path |-> "png",
                                          overall_score |-> overall_score])]

\* _generate_final_report
FinalReport(r) ==
    [final_score       |-> r.current_score,
     target_achieved   |-> r.current_score >= QUALITY_TARGET,
     iterations_run    |-> Len(r.iterations),
     score_progression |-> [i \in DOMAIN r.iterations |-> r.iterations[i].overall_score]]

\* RalphLoop.__init__ and the start of run
RalphInit ==
    /\ LoopsIdle
    /\ cl = NewConvergenceLoop
    /\ dc = Idle /\ ve = Idle /\ rt = Idle /\ ff = Idle /\ bf = Idle
    /\ rl = [pc            |-> "loop",
             iterations    |-> << >>,
             current_score |-> 0,
             results       |-> << >>,
             report        |-> [final_score |-> 0, target_achieved |-> FALSE,
                                iterations_run |-> 0, score_progression |-> << >>]]

\* run lines 401-413: one pass of the for loop; the loop is left when the
\* score of the result reaches the target
RL_Iteration ==
    /\ rl.pc = "loop"
    /\ Len(rl.results) < RALPH_MAX_ITERATIONS
    /\ \E captured \in BOOLEAN, overall_score \in {0, 80, 95, 100} :
       \E after \in {RunIteration(rl, captured, overall_score)} :
          rl' = [after EXCEPT !.pc =
                    IF after.results[Len(after.results)].overall_score >= QUALITY_TARGET
                    THEN "report" ELSE "loop"]
    /\ UNCHANGED <<uvars, cl, dc, ve, rt, ff, bf>>

\* run line 415: after the break or the last iteration
RL_FinalReport ==
    /\ \/ rl.pc = "report"
       \/ rl.pc = "loop" /\ Len(rl.results) = RALPH_MAX_ITERATIONS
    /\ rl' = [rl EXCEPT !.pc = "done", !.report = FinalReport(rl)]
    /\ UNCHANGED <<uvars, cl, dc, ve, rt, ff, bf>>

RalphNext == RL_Iteration \/ RL_FinalReport

RalphSpec == RalphInit /\ [][RalphNext]_vars

-----------------------------------------------------------------------------
(* Properties of UnifiedConvergenceLoop.run *)

\* a step that is one call of run_single_iteration
IterationStep == pc = "loop" /\ loops' = loops + 1

CONVERGE == pc = "done" /\ returned = "True"

ESCALATE == pc = "done" /\ returned = "False"

\* the record of the key the last iteration diagnosed has reached the threshold
KeyAtGutter(st, out) ==
    /\ out.defect_key # << >>
    /\ out.defect_key \in DOMAIN st.failure_counts
    /\ st.failure_counts[out.defect_key].count >= GUTTER_THRESHOLD

C2_ConvergesAtFirstTargetScore ==
    [][ /\ IterationStep =>
              ((pc' = "done" /\ returned' = "True")
                  <=> iter_out'.eval_result.overall_score >= TARGET_SCORE * 100)
        /\ IterationStep => state'.iteration = loops'
        /\ pc = "done" => (state'.iteration = state.iteration /\ pc' = "done"
                           /\ returned' = returned) ]_vars

\* scores rose from below the target and the run converged at iteration k > 1
C2_Witness ==
    /\ CONVERGE
    /\ loops >= 2
    /\ state.scores["overall"] >= TARGET_SCORE * 100

\* C3: every run ends, after at most MAX_ITERATIONS iterations, with True
\* (CONVERGE) or False (ESCALATE), whatever the agent, the render and the
\* scores do; False after the budget is the "max iterations reached" report.
C3_AlwaysTerminates ==
    /\ <>(pc = "done" \/ cl.pc = "done")
    /\ [](/\ loops <= MAX_ITERATIONS
          /\ state.iteration <= MAX_ITERATIONS
          /\ cl.loops <= MAX_ITERATIONS
          /\ cl.iteration <= MAX_ITERATIONS
          /\ pc = "done" => returned \in {"True", "False"}
          /\ cl.pc = "done" => cl.returned \in {"True", "False"}
          /\ ESCALATE => (loops = MAX_ITERATIONS /\ ~state.converged))

\* the budget was used up without convergence
C3_Witness == ESCALATE /\ loops = MAX_ITERATIONS /\ state.iteration = MAX_ITERATIONS

\* the render of the last iteration of run failed
RenderFailed == iter_out.render \in {"api_fail", "capture_fail"}

\* C4: an iteration whose render or capture failed is counted and recorded
\* with overall score 0, and diagnosed on that basis; it is neither skipped
\* nor does it end the loop.
C4_RenderFailureRecorded ==
    /\ RenderFailed =>
          /\ state.iteration = loops
          /\ state.scores["overall"] = 0
          /\ state.last_action # << >>
          /\ (pc = "loop" \/ loops = MAX_ITERATIONS)
    /\ cl.last.render = "fail" =>
          /\ cl.history # << >>
          /\ cl.history[Len(cl.history)].iteration = cl.iteration
          /\ cl.history[Len(cl.history)].score = 0

\* the entry the gutter of a pass adds to state.guardrails names the pass
IsGutterEntry(entry, worst_pass) ==
    Len(entry) >= 3 /\ entry[1] = "Repeated" /\ entry[2] = worst_pass

\* C5: the third occurrence of a defect key triggers the escalation and
\* appends exactly one guardrail entry; the first and the second occurrence
\* append none; the overall score of the iterations plays no part.
C5_GuardrailAtThirdOccurrence ==
    [][ IterationStep =>
          LET key == iter_out'.defect_key
              n   == IF key = << >> THEN 0 ELSE state'.failure_counts[key].count
          IN /\ n = GUTTER_THRESHOLD =>
                   /\ Len(state'.guardrails) = Len(state.guardrails) + 1
                   /\ SubSeq(state'.guardrails, 1, Len(state.guardrails)) = state.guardrails
                   /\ IsGutterEntry(state'.guardrails[Len(state'.guardrails)], key[1])
                   /\ iter_out'.gutter
                   /\ iter_out'.yaml.gutter_detected
             /\ n < GUTTER_THRESHOLD =>
                   /\ state'.guardrails = state.guardrails
                   /\ ~iter_out'.gutter ]_vars

\* the same key in three consecutive iterations, the third one just done
C5_Witness ==
    /\ KeyAtGutter(state, iter_out)
    /\ state.failure_counts[iter_out.defect_key].iterations
          = <<state.iteration - 2, state.iteration - 1, state.iteration>>
    /\ state.guardrails # << >>
    /\ IsGutterEntry(state.guardrails[Len(state.guardrails)], iter_out.defect_key[1])

\* C6: the diagnosis finds nothing to fix (no failing pass, no defect key)
\* only in an iteration whose evaluation met the target.
C6_NoOpOnlyWhenConverged ==
    (iter_out.render # "none" /\ iter_out.defect_key = << >>)
        => iter_out.eval_result.overall_score >= TARGET_SCORE * 100

\* C7: reloading guardrails.md gives the guardrail list the state holds,
\* entry by entry and in the same order.
C7_GuardrailsRoundTrip ==
    pc \in {"loop", "done"} => LoadGuardrails(guardrails_file) = state.guardrails

\* is p a failing pass of the evaluation with the lowest score
LowestFailing(prs, p) ==
    /\ p \in DOMAIN prs
    /\ prs[p].score < PASS_THRESHOLDS[p]
    /\ \A q \in DOMAIN prs :
          prs[q].score < PASS_THRESHOLDS[q] => prs[p].score <= prs[q].score

\* C8: every iteration with a failing pass creates (count 1) or increments
\* by one the record of its key, the worst failing pass with its top
\* defect, appends the iteration to that record and leaves every other
\* record alone; the count of a record is the length of its iterations.
C8_FailureCountsAreOccurrences ==
    [][ IterationStep =>
          LET key == iter_out'.defect_key
              prs == iter_out'.eval_result.pass_results
              old == state.failure_counts
              new == state'.failure_counts
          IN /\ (key = << >>) <=> (\A p \in DOMAIN prs : prs[p].score >= PASS_THRESHOLDS[p])
             /\ key = << >> => new = old
             /\ key # << >> =>
                   /\ LowestFailing(prs, key[1])
                   /\ key[2] = (IF prs[key[1]].defects = << >> THEN "unknown"
                                ELSE Head(prs[key[1]].defects))
                   /\ DOMAIN new = DOMAIN old \cup {key}
                   /\ \A k \in DOMAIN old \ {key} : new[k] = old[k]
                   /\ new[key].count = (IF key \in DOMAIN old THEN old[key].count ELSE 0) + 1
                   /\ new[key].iterations =
                         Append(IF key \in DOMAIN old THEN old[key].iterations ELSE << >>,
                                state'.iteration)
             /\ \A k \in DOMAIN new : new[k].count = Len(new[k].iterations) ]_vars

\* two records, one of them counted more than once
C8_Witness ==
    \E k1, k2 \in DOMAIN state.failure_counts :
        /\ k1 # k2
        /\ state.failure_counts[k1].count >= 2
        /\ state.failure_counts[k2].count >= 1

HigherLevelSkills == {"cortex-agent", "semantic-view", "lane-layout-debugger", "snowgram-debugger"}

\* C9: when the diagnosed key has occurred GUTTER_THRESHOLD times or more,
\* the skill selected is a bundled skill, never the direct fix.
C9_GutterNeverDirectFix ==
    KeyAtGutter(state, iter_out) =>
        /\ iter_out.skill_target \in HigherLevelSkills
        /\ iter_out.yaml.skill = <<"$", iter_out.skill_target>>

\* a gutter of a pass whose root cause maps to the direct fix
C9_Witness ==
    /\ KeyAtGutter(state, iter_out)
    /\ iter_out.defect_key[1] \in {"badges", "styling"}
    /\ iter_out.skill_target = "lane-layout-debugger"

-----------------------------------------------------------------------------
(* Properties of DefectClassifier.diagnose *)

\* the defects of the diagnosis that were derived from pass p
DefectsOfPass(p) == {i \in 1..Len(dc.result.defects) : dc.result.defects[i].pass_type = p}

\* C11: every pass whose score is below its per-pass threshold (layout 70,
\* badges and components 90, connections 85, styling and structure 80) has
\* at least one Defect in the diagnosis.
C11_EveryFailingPassHasDefect ==
    dc.pc = "done" =>
        \A p \in PassNames :
            dc.pass_results[p].score < PASS_THRESHOLDS[p] => DefectsOfPass(p) # {}

-----------------------------------------------------------------------------
(* Properties of VisualEvaluator.evaluate *)

\* the score of pass p in the evaluator's result, in ticks
ScoreOf(p) == ve.result.pass_results[p].score

\* C12: overall_score is the sum over the six passes of score times weight
\* with the weights 0.15, 0.25, 0.20, 0.15, 0.15 and 0.10 of structure,
\* components, connections, styling, layout and badges, and the weights sum
\* to 1.0 (here: to 100 percent).
C12_OverallIsWeightedSum ==
    /\ Weight("structure") + Weight("components") + Weight("connections")
          + Weight("styling") + Weight("layout") + Weight("badges") = 100
    /\ ve.pc = "done" =>
          /\ DOMAIN ve.result.pass_results = PassNames
          /\ ve.result.overall_score =
                15 * ScoreOf("structure") + 25 * ScoreOf("components")
                + 20 * ScoreOf("connections") + 15 * ScoreOf("styling")
                + 15 * ScoreOf("layout") + 10 * ScoreOf("badges")

\* an evaluation whose six scores are all different
C12_Witness ==
    /\ ve.pc = "done"
    /\ \A p, q \in PassNames : p # q => ScoreOf(p) # ScoreOf(q)

\* C13: every pass score and the overall score lie in [0, 100], whatever
\* penalties are triggered and whichever inputs are missing.
C13_ScoresWithinRange ==
    ve.pc = "done" =>
        /\ \A p \in PassNames : ScoreOf(p) >= 0 /\ ScoreOf(p) <= Points(100)
        /\ ve.result.overall_score >= 0
        /\ ve.result.overall_score <= Points(100) * 100

\* the penalties of the badges pass add up to more than 100 points
C13_Witness ==
    /\ ve.pc = "done"
    /\ ve.analysis.gen
    /\ ve.analysis.badges.purple_detected = 0
    /\ ve.analysis.badges.blue_detected = 0
    /\ ve.analysis.badges.purple_ratio = "scattered"
    /\ ve.analysis.badges.position_quality = "poor"
    /\ ScoreOf("badges") = 0

\* C14: when the generated image is missing or its layout is chaotic, the
\* evaluation does not converge at the target of 95, whatever the other
\* passes score.
C14_MissingOrChaoticNeverConverges ==
    (/\ ve.pc = "done"
     /\ ve.target_score = 95
     /\ (~ve.analysis.gen \/ IsChaotic(ve.analysis))) => ~ve.result.converged

\* a chaotic layout in a diagram that is otherwise clean: every other pass
\* scores 100
C14_Witness ==
    /\ ve.pc = "done"
    /\ ve.analysis.gen /\ ve.analysis.code
    /\ IsChaotic(ve.analysis)
    /\ \A p \in PassNames \ {"layout"} : ScoreOf(p) = Points(100)
    /\ ~ve.result.converged

\* C15: evaluate completes on missing inputs with a result for each of the
\* six passes and an overall score, and each pass that misses its input
\* loses a fixed number of points: without the generated image structure
\* loses 30, components 25, layout 50 and badges 40; without the reference
\* image layout loses 10; without the source text connections scores 75 and
\* styling 70.
C15_MissingInputsFixedPenalty ==
    ve.pc = "done" =>
        LET a == ve.analysis
            penalty == [p \in PassNames |->
                           CASE p = "structure"  -> 30
                             [] p = "components" -> 25
                             [] p = "layout"     -> 50
                             [] p = "badges"     -> 40
                             [] OTHER            -> 0]
        IN /\ DOMAIN ve.result.pass_results = PassNames
           /\ ve.result.overall_score = OverallScore(ve.result.pass_results)
           /\ ~a.gen =>
                 \A p \in {"structure", "components", "layout", "badges"} :
                    /\ ScoreOf(p) <= Points(100 - penalty[p])
                    /\ ~a.code => ScoreOf(p) = Points(100 - penalty[p])
                    /\ \E i \in DOMAIN ve.result.pass_results[p].defects :
                          ve.result.pass_results[p].defects[i] \in
                             {"VISUAL: No generated image to analyze",
                              "VISUAL: No generated image for component analysis",
                              "VISUAL: No generated image for layout analysis",
                              "VISUAL: No generated image for badge detection"}
           /\ (a.gen /\ ~a.ref) =>
                 /\ ScoreOf("layout") <= Points(90)
                 /\ (a = [CleanAnalysis EXCEPT !.ref = FALSE]
                        => ScoreOf("layout") = Points(90))
           /\ ~a.code =>
                 /\ ScoreOf("connections") = Points(75)
                 /\ ScoreOf("styling") = Points(70)

\* neither image nor the source text is there
C15_Witness ==
    /\ ve.pc = "done"
    /\ ~ve.analysis.gen /\ ~ve.analysis.ref /\ ~ve.analysis.code
    /\ ScoreOf("layout") = Points(50)
    /\ ve.result.overall_score = 6825 * ExpectedComponents

\* C16: every EvalResult that diagnose_root_cause receives, the placeholder
\* of an iteration whose render failed included, holds a PassResult for each
\* of the six pass types.
C16_DiagnosedEvalHasSixPasses ==
    iter_out.render # "none" => DOMAIN iter_out.eval_result.pass_results = PassNames

-----------------------------------------------------------------------------
(* Properties of the defects DefectClassifier.diagnose derives *)

\* (100 - score) / 100 * weight of the pass defect d was derived from, in
\* the unit of Defect.severity (20000 to 1)
ExpectedSeverity(d) == 2 * (100 - dc.pass_results[d.pass_type].score) * Weight(d.pass_type)

\* the defects of the diagnosis
DiagnosedDefects == {dc.result.defects[i] : i \in 1..Len(dc.result.defects)}

\* C17 as stated: every Defect has severity exactly (100 - score) / 100 *
\* weight of its pass, for every pass type and every classification rule,
\* and so a severity in [0, 1].
C17_SeverityExact ==
    dc.pc = "done" =>
        \A d \in DiagnosedDefects :
            d.severity = ExpectedSeverity(d) /\ d.severity >= 0 /\ d.severity <= 20000

\* C17 amended: every Defect has severity (100 - score) / 100 * weight of
\* its pass, except the wrong_connection defect of a connections pass whose
\* findings mention neither handle nor direction, which has half of it;
\* every severity is in [0, 1].
C17_SeverityExactOrHalved ==
    dc.pc = "done" =>
        \A d \in DiagnosedDefects :
            /\ d.defect_type # "wrong_connection" => d.severity = ExpectedSeverity(d)
            /\ d.defect_type = "wrong_connection" =>
                  /\ d.pass_type = "connections"
                  /\ 2 * d.severity = ExpectedSeverity(d)
            /\ d.severity >= 0 /\ d.severity <= 20000

\* a diagnosis with a halved connections defect next to defects of full
\* severity
C17_Witness ==
    /\ dc.pc = "done"
    /\ \E d \in DiagnosedDefects :
          d.defect_type = "wrong_connection" /\ d.severity > 0
    /\ \E d \in DiagnosedDefects :
          d.defect_type # "wrong_connection" /\ d.severity = ExpectedSeverity(d)

\* the findings of pass p match none of the words the rules look for
NoRuleMatches(p) ==
    \A word \in {"subgraph", "missing", "node", "column", "position",
                 "spacing", "handle", "direction"} :
        ~Mentions(FindingsLower(dc.pass_results[p].findings), word)

\* C18: the defect of a failing pass whose findings match no specific rule
\* is attributed to the default source of the pass: backend for structure,
\* components and badges, frontend for layout, connections and styling.
C18_DefaultSourceWhenNoRule ==
    dc.pc = "done" =>
        \A d \in DiagnosedDefects :
            NoRuleMatches(d.pass_type) =>
                d.source = (IF d.pass_type \in {"structure", "components", "badges"}
                            THEN "backend" ELSE "frontend")

\* C20: recommended_fixes has min(5, number of defects) entries, each the
\* line of a different defect, in non-increasing order of severity, and no
\* defect left out is more severe than one that is listed.
C20_TopFiveBySeverity ==
    dc.pc = "done" =>
        LET defects == dc.result.defects
            fixes   == dc.result.recommended_fixes
            n       == IF Len(defects) < 5 THEN Len(defects) ELSE 5
        IN /\ Len(fixes) = n
           /\ \E pick \in [1..n -> 1..Len(defects)] :
                 /\ \A i, j \in 1..n : i # j => pick[i] # pick[j]
                 /\ \A i \in 1..n : fixes[i] = Recommendation(defects[pick[i]])
                 /\ \A i, j \in 1..n :
                       i < j => defects[pick[i]].severity >= defects[pick[j]].severity
                 /\ \A k \in 1..Len(defects) :
                       (\A i \in 1..n : pick[i] # k) =>
                          \A i \in 1..n : defects[pick[i]].severity >= defects[k].severity

\* six defects of different severities, given in another order than that
\* of their severity: five are listed
C20_Witness ==
    /\ dc.pc = "done"
    /\ Len(dc.result.defects) = 6
    /\ Len(dc.result.recommended_fixes) = 5
    /\ \E i \in 1..5 :
          dc.result.defects[i].severity < dc.result.defects[i + 1].severity

-----------------------------------------------------------------------------
(* Properties of the test harness *)

\* the status run_test gives a test case from what the agent does with its
\* query alone
OwnStatus(test_case) ==
    CASE test_case.outcome = "valid"   -> "PASS"
      [] test_case.outcome = "invalid" -> "FAIL"
      [] OTHER                         -> "ERROR"

\* C19: when the run ends, the report holds exactly one TestResult for each
\* test case, its status is the one the test case's own execution gives,
\* whatever the other test cases did and in whatever order the workers
\* completed, and passed + failed + errors + skipped equals total.
C19_OneResultPerTestCase ==
    rt.pc = "done" =>
        LET results == rt.report.results
        IN /\ Len(results) = Len(rt.test_cases)
           /\ \A i \in DOMAIN rt.test_cases :
                 /\ Cardinality({k \in DOMAIN results :
                                    results[k].name = rt.test_cases[i].name}) = 1
                 /\ \A k \in DOMAIN results :
                       results[k].name = rt.test_cases[i].name =>
                          results[k].status = OwnStatus(rt.test_cases[i])
           /\ rt.report.passed + rt.report.failed + rt.report.errors
                 + rt.report.skipped = rt.report.total
           /\ rt.report.total = Len(rt.test_cases)

\* a run in which one test case raised, another passed and a third failed,
\* and the results came in in another order than the test cases went out
C19_Witness ==
    /\ rt.pc = "done"
    /\ rt.report.errors = 1 /\ rt.report.passed = 1 /\ rt.report.failed = 1
    /\ rt.report.results[1].name # rt.test_cases[1].name
    /\ rt.test_cases[1].outcome = "raises"

-----------------------------------------------------------------------------
(* Properties of VisualEvaluator._detect_badge_positions *)

\* C21: the badge position quality is correctly_placed / total_badges_found
\* * 100 when a badge cluster is detected and 0 when none is: a number (a
\* fraction with a denominator that is not 0) in [0, 100].
C21_PositionQualityDefined ==
    ve.pc = "detected" =>
        LET r       == ve.position_result
            quality == r.position_quality_score
            correct == r.purple_in_left_zone + r.blue_in_center_zone
        IN /\ quality[2] > 0
           /\ r.total_badges_found > 0 =>
                 quality[1] * r.total_badges_found = correct * 100 * quality[2]
           /\ r.total_badges_found = 0 => quality[1] = 0
           /\ quality[1] >= 0 /\ quality[1] <= 100 * quality[2]

\* an image with clusters too small to be badges: no badge is detected
C21_Witness ==
    /\ ve.pc = "detected"
    /\ Len(ve.image.purple) + Len(ve.image.blue) > 0
    /\ ve.position_result.total_badges_found = 0
    /\ ve.position_result.position_quality_score = <<0, 1>>

-----------------------------------------------------------------------------
(* Further properties of UnifiedConvergenceLoop.run *)

\* C22: when run reports convergence, every pass meets the success
\* criterion of the progress checklist: its score is at least its threshold
\* and its box in progress.md is checked.
C22_ConvergedMeetsEveryCriterion ==
    CONVERGE =>
        \A p \in PassNames :
            /\ p \in DOMAIN state.scores
            /\ state.scores[p] >= PASS_THRESHOLDS[p]
            /\ progress_file.checked[p]

\* C23: state.guardrails gains at most one entry per defect key in a run:
\* an iteration appends an entry only when the count of its key reaches
\* the gutter threshold, not when the key recurs after that.
C23_OneGuardrailPerKey ==
    [][ (IterationStep /\ state'.guardrails # state.guardrails) =>
           /\ iter_out'.defect_key # << >>
           /\ state'.failure_counts[iter_out'.defect_key].count = GUTTER_THRESHOLD ]_vars

-----------------------------------------------------------------------------
(* Properties of ConvergenceLoop.apply_fixes and SkillTrigger *)

\* the score of pass p in the evaluation apply_fixes was called with
ScoreIn(p) == cl.before.last.pass_results[p].score

\* C24: next_action is invoke_agent exactly when layout < 70 or structure <
\* 80, and the agent is that of layout when layout fails, else that of
\* structure; it is direct_fix exactly when neither holds and connections <
\* 85, styling < 80, badges < 90 or components < 90; otherwise continue.
C24_NextActionByTriggerMatrix ==
    cl.pc = "applied" =>
        LET info   == cl.action_info
            agent  == ScoreIn("layout") < 70 \/ ScoreIn("structure") < 80
            direct == \/ ScoreIn("connections") < 85 \/ ScoreIn("styling") < 80
                      \/ ScoreIn("badges") < 90 \/ ScoreIn("components") < 90
        IN /\ info.next_action = "invoke_agent" <=> agent
           /\ info.next_action = "direct_fix" <=> (~agent /\ direct)
           /\ info.next_action = "continue" <=> (~agent /\ ~direct)
           /\ ScoreIn("layout") < 70 => info.agent_to_invoke = "lane-layout-debugger"
           /\ (ScoreIn("layout") >= 70 /\ ScoreIn("structure") < 80)
                 => info.agent_to_invoke = "snowgram-debugger"
           /\ ~agent => info.agent_to_invoke = "None"

\* layout and structure fail together with passes that have a direct fix
C24_Witness ==
    /\ cl.pc = "applied"
    /\ ScoreIn("layout") < 70 /\ ScoreIn("structure") < 80
    /\ ScoreIn("connections") < 85 /\ ScoreIn("badges") = 90
    /\ cl.action_info.next_action = "invoke_agent"
    /\ cl.action_info.agent_to_invoke = "lane-layout-debugger"

\* C26: when apply_fixes takes direct_fix and the code fixes of several
\* failing passes each modify the source, current_mermaid afterwards
\* contains the modification of every one of them.
C26_AllCodeFixesKept ==
    (cl.pc = "applied" /\ cl.action_info.next_action = "direct_fix") =>
        \A p \in {"badges", "styling", "connections"} :
            LET defects == cl.before.last.pass_results[p].defects
            IN (/\ Failing(cl.before.last.pass_results, p)
                /\ ExecuteCodeFix(cl.before.current_mermaid, p, defects).modified)
                  => FixOf(p, defects) \in cl.action_info.current_mermaid

\* C27: determine_actions returns one action per pass below its threshold,
\* and an action for a lower-scoring pass never comes after an action for a
\* higher-scoring pass.
C27_LowestScoreFirst ==
    cl.pc = "applied" =>
        /\ Len(cl.actions) = Cardinality({p \in PassNames : ScoreIn(p) < Threshold(p)})
        /\ \A i, j \in DOMAIN cl.actions :
              i < j => ScoreIn(cl.actions[i]) <= ScoreIn(cl.actions[j])

-----------------------------------------------------------------------------
(* Properties of ConvergenceLoop.run *)

\* an iteration of ConvergenceLoop.run is executed in this step
CLIterationStep == cl.pc = "loop" /\ cl'.loops = cl.loops + 1

\* C25: run stops at the first iteration whose evaluation is converged,
\* returning True, or whose decision is invoke_agent, returning False; an
\* iteration with neither leaves the loop running; the loop ends otherwise
\* only after exactly MAX_ITERATIONS iterations, returning False; and run
\* has returned True exactly when an executed iteration was converged.
C25_StopsAtConvergedOrEscalation ==
    /\ [][ CLIterationStep =>
              LET evaluated == cl'.last.render = "ok"
                  conv == evaluated /\ cl'.history[Len(cl'.history)].converged
                  esc  == /\ evaluated /\ ~conv
                          /\ NextAction(cl'.last.pass_results) = "invoke_agent"
              IN /\ conv => (cl'.pc = "done" /\ cl'.returned = "True")
                 /\ esc => (cl'.pc = "done" /\ cl'.returned = "False")
                 /\ (~conv /\ ~esc) => cl'.pc = "loop" ]_vars
    /\ [][ (cl.pc = "loop" /\ cl'.pc = "done" /\ cl'.loops = cl.loops) =>
              (cl.loops = MAX_ITERATIONS /\ cl'.returned = "False") ]_vars
    /\ [](cl.pc = "done" =>
            /\ cl.returned = "True" <=>
                  \E i \in DOMAIN cl.history : cl.history[i].converged
            /\ \A i \in DOMAIN cl.history :
                  cl.history[i].converged => i = Len(cl.history))

\* run paused for an agent, before the iterations were used up, after
\* iterations that applied direct fixes
C25_Witness ==
    /\ cl.pc = "done" /\ cl.returned = "False"
    /\ cl.agent_requested # "None"
    /\ cl.loops < MAX_ITERATIONS
    /\ Len(cl.history) >= 2
    /\ cl.current_mermaid # {}

-----------------------------------------------------------------------------
(* Properties of FrontendFixer.apply_fixes *)

\* C28: when the rebuild failed after the last call of apply_fixes had
\* written fixes, every file that call modified has the content it had
\* immediately before the call, and the result reports success = False,
\* no fixes applied and no files modified, whatever calls came before.
C28_RollbackRestoresCallStart ==
    (ff.pc = "ready" /\ ff.calls > 0 /\ ~ff.build /\ ff.files_modified # {}) =>
        /\ \A q \in ff.files_modified : ff.files[q] = ff.before[q]
        /\ ~ff.result.success
        /\ ff.result.fixes_applied = << >>
        /\ ff.result.files_modified = {}

-----------------------------------------------------------------------------
(* Properties of BackendFixer.apply_fixes *)

\* C29: the last call of apply_fixes changed current_code only if the
\* database update succeeded; when the update failed, current_code is
\* unchanged and no fix is recorded as applied, neither in the result's
\* fixes_applied nor in the fixer's applied_fixes.
C29_AllOrNothing ==
    (bf.pc = "ready" /\ bf.calls > 0) =>
        /\ bf.current_code # bf.before.current_code =>
              (bf.update = "ok" /\ bf.result.success)
        /\ ~bf.result.success =>
              /\ bf.current_code = bf.before.current_code
              /\ bf.result.fixes_applied = << >>
              /\ bf.applied_fixes = bf.before.applied_fixes

-----------------------------------------------------------------------------
(* Properties of RalphLoop.run *)

\* C30: in the final report iterations_run is the number of iterations the
\* loop ran and final_score is the overall score of the last iteration it
\* ran, an iteration whose capture failed counting with score 0.
C30_ReportMatchesIterations ==
    rl.pc = "done" =>
        /\ rl.report.iterations_run = Len(rl.results)
        /\ rl.report.final_score = rl.results[Len(rl.results)].overall_score

====
